---- MODULE Spec2Model ----
(***************************************************************************)
(* Sentryield strategy engine: the live price oracle (LivePriceOracle),     *)
(* the guard evaluators, the yield math, the config module with the        *)
(* rotation policy it configures, and the migration report, as state       *)
(* machines.                                                               *)
(*                                                                         *)
(* Time is counted in ticks of 1000 ms.  Prices are fixed-point numbers    *)
(* with PriceScale units per dollar.                                       *)
(***************************************************************************)
EXTENDS Integers, Sequences, FiniteSets, TLC

VARIABLES
    now,                  \* Date.now(), in ticks
    config,               \* LivePriceOracleConfig handed to the constructor
    cache,                \* LivePriceOracle.cache : Map<string, CacheEntry>
    rateLimitedUntilMs,   \* LivePriceOracle.rateLimitedUntilMs
    warningLastLoggedAt,  \* LivePriceOracle.warningLastLoggedAt : Map<string, number>
    telemetry,            \* LivePriceOracle.telemetry
    calls,                \* the pending getPriceUsd / getStablePricesUsd calls
    lastCall,             \* what the call completed by the last step gave its caller
    started,              \* number of calls begun so far
    httpRequests,         \* upstream HTTP requests issued so far (counting transport)
    last429At,            \* time of the last HTTP 429 response (Nil if none)
    warnLog,              \* console.warn output: sequence of [key, at]
    provenance,           \* per cache entry: where its value came from, and the
                          \* last fallback that armed it (history, not oracle state)
    guardCall,            \* last guard evaluation: its inputs and its GuardResult
    yieldCall,            \* last yield-math evaluation: its inputs and its result
    runtime,              \* config module: the process environment, then RUNTIME
    engine,               \* rotation policy: clock, CURRENT_POSITION, rotation counters
    decision,             \* rotation policy: the last tick's inputs and decision
    migration,            \* migration-report main(): its locals and its output
    adapterCall,          \* last Dex1Adapter method call: its inputs and its outcome
    warnCall              \* last warnWithCooldown call made on its own: key, time, logged

oracleVars == <<now, config, cache, rateLimitedUntilMs, warningLastLoggedAt,
                telemetry, calls, lastCall, started, httpRequests, last429At,
                warnLog, provenance>>
\* the variables outside the oracle, by component
yieldVars == <<yieldCall>>
engineVars == <<runtime, engine, decision>>
reportVars == <<migration>>
adapterVars == <<adapterCall>>
warnVars == <<warnCall>>
vars == <<now, config, cache, rateLimitedUntilMs, warningLastLoggedAt,
          telemetry, calls, lastCall, started, httpRequests, last429At,
          warnLog, provenance, guardCall, yieldCall, runtime, engine, decision,
          migration, adapterCall, warnCall>>

----------------------------------------------------------------------------
(* Bounds of the model *)

\* first value of the clock; larger than every cooldown, as a wall clock is
EpochStart == 10
\* number of clock ticks explored
MaxTicks == 3
\* number of oracle calls explored
MaxCalls == 2

Nil == -1

Max(a, b) == IF a >= b THEN a ELSE b

----------------------------------------------------------------------------
(* Symbols, prices and upstream payloads *)

PriceScale == 100000

\* the symbol strings callers pass in; " usdc" stands for any un-normalised spelling
RawSymbols == {"USDC", " usdc", "AUSD"}
Symbols == {"USDC", "AUSD"}

\* symbol.trim().toUpperCase()
Normalize(symbol) == IF symbol = " usdc" THEN "USDC" ELSE symbol

\* payload[id]?.usd as the upstream may send it
Num(v) == [t |-> "number", v |-> v]
NotNum(t) == [t |-> t, v |-> 0]
RawUsd == {Num(PriceScale), Num(PriceScale + 2000), Num(0), NotNum("NaN"),
           NotNum("undefined")}

\* faulty variant: value >= 0 in place of value > 0
IsValidUsd_nonNegative(raw) == raw.t = "number" /\ raw.v >= 0

\* typeof value === "number" && Number.isFinite(value) && value > 0
IsValidUsd(raw) == raw.t = "number" /\ raw.v > 0

----------------------------------------------------------------------------
(* Configuration and the constructor *)

DefaultCooldownMs == 300

AllIds == [s \in Symbols |-> IF s = "USDC" THEN "usd-coin" ELSE "agora-dollar"]
NoAusdId == [AllIds EXCEPT !["AUSD"] = ""]

Configs ==
    { [stableSymbols |-> <<"USDC", "AUSD">>, coingeckoIdBySymbol |-> AllIds,
       cacheTtlMs |-> 2, rateLimitCooldownMs |-> 2, staleFallbackTtlMs |-> 3,
       warningCooldownMs |-> 4],
      [stableSymbols |-> <<"USDC", "AUSD", " usdc">>, coingeckoIdBySymbol |-> NoAusdId,
       cacheTtlMs |-> 2, rateLimitCooldownMs |-> 0, staleFallbackTtlMs |-> 1,
       warningCooldownMs |-> 0] }

\* constructor: Math.max(1_000, config.rateLimitCooldownMs ?? 300_000)
rateLimitCooldownMs ==
    Max(1, IF config.rateLimitCooldownMs = Nil THEN DefaultCooldownMs
           ELSE config.rateLimitCooldownMs)
\* faulty variant: the configured value, not raised to the cache TTL
staleFallbackTtlMs_configured ==
    IF config.staleFallbackTtlMs = Nil THEN DefaultCooldownMs
    ELSE config.staleFallbackTtlMs

\* constructor: Math.max(config.cacheTtlMs, config.staleFallbackTtlMs ?? 300_000)
staleFallbackTtlMs ==
    Max(config.cacheTtlMs,
        IF config.staleFallbackTtlMs = Nil THEN DefaultCooldownMs
        ELSE config.staleFallbackTtlMs)
\* constructor: Math.max(0, config.warningCooldownMs ?? 300_000)
warningCooldownMs ==
    Max(0, IF config.warningCooldownMs = Nil THEN DefaultCooldownMs
           ELSE config.warningCooldownMs)

----------------------------------------------------------------------------
(* The cache *)

\* normalizeSymbols: the distinct normalised symbols of an array
normalizeSymbols(symbols) == {Normalize(symbols[i]) : i \in DOMAIN symbols}

\* faulty variant: the value is replaced but an existing entry keeps its expiry
writeCache_keepExpiry(c, symbol, value, ttlMs, nowMs) ==
    [k \in DOMAIN c \cup {Normalize(symbol)} |->
        IF k = Normalize(symbol)
        THEN [value |-> value,
              expiresAt |-> IF k \in DOMAIN c THEN c[k].expiresAt ELSE nowMs + ttlMs]
        ELSE c[k]]

\* writeCache on cache c at time nowMs
writeCache(c, symbol, value, ttlMs, nowMs) ==
    [k \in DOMAIN c \cup {Normalize(symbol)} |->
        IF k = Normalize(symbol)
        THEN [value |-> value, expiresAt |-> nowMs + ttlMs]
        ELSE c[k]]

\* faulty variant: the expiry test reversed
readCachedValue_flipped(c, symbol, allowStale, nowMs) ==
    LET normalized == Normalize(symbol) IN
    IF normalized \notin DOMAIN c THEN Nil
    ELSE IF ~allowStale /\ c[normalized].expiresAt >= nowMs THEN Nil
    ELSE c[normalized].value

\* faulty variant: allowStale ignored, an expired entry is never read
readCachedValue_noStale(c, symbol, allowStale, nowMs) ==
    LET normalized == Normalize(symbol) IN
    IF normalized \notin DOMAIN c THEN Nil
    ELSE IF c[normalized].expiresAt <= nowMs THEN Nil
    ELSE c[normalized].value

\* faulty variant: a stale read of a missing entry assumes $1.00
readCachedValue_defaultOne(c, symbol, allowStale, nowMs) ==
    LET normalized == Normalize(symbol) IN
    IF normalized \notin DOMAIN c THEN (IF allowStale THEN PriceScale ELSE Nil)
    ELSE IF ~allowStale /\ c[normalized].expiresAt <= nowMs THEN Nil
    ELSE c[normalized].value

\* readCachedValue: the value, or Nil for null
readCachedValue(c, symbol, allowStale, nowMs) ==
    LET normalized == Normalize(symbol) IN
    IF normalized \notin DOMAIN c THEN Nil
    ELSE IF ~allowStale /\ c[normalized].expiresAt <= nowMs THEN Nil
    ELSE c[normalized].value

\* readCachedSnapshot: [hit |-> FALSE] stands for null, else the record of values
readCachedSnapshot(c, symbols, allowStale, nowMs) ==
    IF \E s \in symbols : readCachedValue(c, s, allowStale, nowMs) = Nil
    THEN [hit |-> FALSE, values |-> << >>]
    ELSE [hit |-> TRUE,
          values |-> [s \in symbols |-> readCachedValue(c, s, allowStale, nowMs)]]

\* writeCacheSnapshot: writeCache for every entry of values
writeCacheSnapshot(c, values, ttlMs, nowMs) ==
    [k \in DOMAIN c \cup {Normalize(s) : s \in DOMAIN values} |->
        IF \E s \in DOMAIN values : Normalize(s) = k
        THEN [value |-> values[CHOOSE s \in DOMAIN values : Normalize(s) = k],
              expiresAt |-> nowMs + ttlMs]
        ELSE c[k]]

----------------------------------------------------------------------------
(* warnWithCooldown *)

SingleKey(symbol) == [k |-> "single", s |-> symbol]
StableFallbackKey == [k |-> "stable:fallback", s |-> ""]
StableHardFallbackKey == [k |-> "stable:hard-fallback", s |-> ""]

\* faulty variant: one timestamp for all keys, the key is not looked at
warnIsLogged_anyKey(w, key, nowMs) ==
    IF warningCooldownMs <= 0 THEN TRUE
    ELSE \A k \in DOMAIN w : ~(nowMs - w[k] < warningCooldownMs)

\* whether warnWithCooldown(key, ...) reaches console.warn, given the map w
warnIsLogged(w, key, nowMs) ==
    IF warningCooldownMs <= 0 THEN TRUE
    ELSE LET lastLoggedAt == IF key \in DOMAIN w THEN w[key] ELSE 0 IN
         ~(nowMs - lastLoggedAt < warningCooldownMs)

\* warningLastLoggedAt after warnWithCooldown(key, ...)
warnWithCooldown(w, key, nowMs) ==
    IF warningCooldownMs <= 0 THEN w
    ELSE IF ~warnIsLogged(w, key, nowMs) THEN w
    ELSE [k \in DOMAIN w \cup {key} |-> IF k = key THEN nowMs ELSE w[k]]

\* console.warn output after warnWithCooldown(key, ...)
consoleWarn(log, w, key, nowMs) ==
    IF warnIsLogged(w, key, nowMs) THEN Append(log, [key |-> key, at |-> nowMs])
    ELSE log

----------------------------------------------------------------------------
(* fetchPrices *)

NoValues == << >>
Resolved(values) == [ok |-> TRUE, values |-> values, error |-> ""]
Rejected(error) == [ok |-> FALSE, values |-> NoValues, error |-> error]

\* faulty variant: the cooldown test left out
fetchPricesPrecheck_noCooldown(symbols, nowMs, limitedUntil) ==
    LET uniqueSymbols == {Normalize(s) : s \in symbols} IN
    IF uniqueSymbols = {} THEN "empty_symbol_set"
    ELSE IF \E s \in uniqueSymbols : config.coingeckoIdBySymbol[s] = ""
         THEN "missing_id"
    ELSE ""

\* faulty variant: nowMs <= rateLimitedUntilMs in place of <
fetchPricesPrecheck_inclusive(symbols, nowMs, limitedUntil) ==
    LET uniqueSymbols == {Normalize(s) : s \in symbols} IN
    IF uniqueSymbols = {} THEN "empty_symbol_set"
    ELSE IF nowMs <= limitedUntil THEN "rate_limit_cooldown"
    ELSE IF \E s \in uniqueSymbols : config.coingeckoIdBySymbol[s] = ""
         THEN "missing_id"
    ELSE ""

\* fetchPrices up to the fetch(...) call: the error thrown, or "" when the
\* request is issued
fetchPricesPrecheck(symbols, nowMs, limitedUntil) ==
    LET uniqueSymbols == {Normalize(s) : s \in symbols} IN
    IF uniqueSymbols = {} THEN "empty_symbol_set"
    ELSE IF nowMs < limitedUntil THEN "rate_limit_cooldown"
    ELSE IF \E s \in uniqueSymbols : config.coingeckoIdBySymbol[s] = ""
         THEN "missing_id"
    ELSE ""

\* what the upstream can answer to a request for these symbols
Responses(symbols) ==
    LET ids == {config.coingeckoIdBySymbol[s] : s \in symbols} IN
    {[kind |-> "abort", status |-> 0, payload |-> NoValues],
     [kind |-> "http", status |-> 429, payload |-> NoValues],
     [kind |-> "http", status |-> 500, payload |-> NoValues],
     [kind |-> "badjson", status |-> 200, payload |-> NoValues]}
    \cup {[kind |-> "http", status |-> 200, payload |-> p] : p \in [ids -> RawUsd]}

\* response.ok
ResponseOk(response) == response.status >= 200 /\ response.status <= 299

\* fetchPrices from the answer of fetch(...) on: the promise's outcome
fetchPricesSettle(symbols, response) ==
    LET uniqueSymbols == {Normalize(s) : s \in symbols}
        usd(s) == response.payload[config.coingeckoIdBySymbol[s]]
    IN  IF response.kind = "abort" THEN Rejected("aborted")
        ELSE IF ~ResponseOk(response)
             THEN Rejected(IF response.status = 429 THEN "http_429" ELSE "http_error")
        ELSE IF response.kind = "badjson" THEN Rejected("invalid_json")
        ELSE IF \E s \in uniqueSymbols : ~IsValidUsd(usd(s))
             THEN Rejected("invalid_price")
        ELSE Resolved([s \in uniqueSymbols |-> usd(s).v])

\* rateLimitedUntilMs after the answer of fetch(...)
rateLimitAfter(response, nowMs, limitedUntil) ==
    IF response.kind # "abort" /\ ~ResponseOk(response) /\ response.status = 429
    THEN nowMs + rateLimitCooldownMs
    ELSE limitedUntil

----------------------------------------------------------------------------
(* The oracle's calls.  A call runs atomically up to its first await that   *)
(* yields (Begin), the upstream answers (FetchRespond), and the caller's    *)
(* continuation after `await this.fetchPrices(...)` runs (Continue).        *)

\* the slots of the calls that may be pending together; a new call takes the
\* first free slot
Callers == {1, 2}
FirstFree(c) == calls[c].pc = "idle" /\ \A d \in Callers : d < c => calls[d].pc # "idle"

\* nowMs is fetchPrices' reading of the clock at line 139
IdleCall == [pc |-> "idle", op |-> "none", symbol |-> "", symbols |-> {},
             nowMs |-> Nil, requests |-> 0, outcome |-> Rejected("")]

NoCall == [op |-> "none", symbol |-> "", kind |-> "none",
           value |-> Nil, values |-> NoValues, error |-> "", path |-> "none",
           requests |-> 0]

Returned(op, symbol, value, values, path, requests) ==
    [op |-> op, symbol |-> symbol, kind |-> "return",
     value |-> value, values |-> values, error |-> "", path |-> path,
     requests |-> requests]

Thrown(op, symbol, error, requests) ==
    [op |-> op, symbol |-> symbol, kind |-> "throw",
     value |-> Nil, values |-> NoValues, error |-> error, path |-> "throw",
     requests |-> requests]

\* faulty variant: the counter is raised by two
Bump_twice(t, field) == [t EXCEPT ![field] = @ + 2]

\* this.telemetry.<field> += 1
Bump(t, field) == [t EXCEPT ![field] = @ + 1]

\* the call enters fetchPrices(symbols): it throws before the request, or
\* issues the request
EnterFetch(c, op, symbol, symbols) ==
    LET pre == fetchPricesPrecheck(symbols, now, rateLimitedUntilMs) IN
    IF pre # ""
    THEN /\ calls' = [calls EXCEPT ![c] =
                [pc |-> "settled", op |-> op, symbol |-> symbol,
                 symbols |-> symbols, nowMs |-> now, requests |-> 0,
                 outcome |-> Rejected(pre)]]
         /\ UNCHANGED httpRequests
    ELSE /\ calls' = [calls EXCEPT ![c] =
                [pc |-> "inflight", op |-> op, symbol |-> symbol,
                 symbols |-> symbols, nowMs |-> now, requests |-> 1,
                 outcome |-> Rejected("")]]
         /\ httpRequests' = httpRequests + 1

\* the history of the cache entries.  origin: "upstream" when the value was
\* supplied by a successful fetch, "assumed" when it is the 1.0 of the hard
\* fallback; armedUntil: now + staleFallbackTtlMs of the last fallback that
\* wrote the entry (Nil if none); rearmed: the entry was last written by a
\* fallback, not by a successful fetch; origin "none" stands for an entry with
\* no recorded write
noteFetched(p, symbols) ==
    [s \in DOMAIN p \cup symbols |->
        IF s \in symbols
        THEN [origin |-> "upstream",
              armedUntil |-> IF s \in DOMAIN p THEN p[s].armedUntil ELSE Nil,
              rearmed |-> FALSE]
        ELSE p[s]]
noteRearmed(p, symbols, nowMs) ==
    [s \in DOMAIN p \cup symbols |->
        IF s \in symbols
        THEN [origin |-> IF s \in DOMAIN p THEN p[s].origin ELSE "none",
              armedUntil |-> nowMs + staleFallbackTtlMs,
              rearmed |-> TRUE]
        ELSE p[s]]
noteAssumed(p, symbols, nowMs) ==
    [s \in DOMAIN p \cup symbols |->
        IF s \in symbols
        THEN [origin |-> "assumed", armedUntil |-> nowMs + staleFallbackTtlMs,
              rearmed |-> TRUE]
        ELSE p[s]]

\* faulty variant: built from the configured spellings, not the normalised ones
hardFallback_rawKeys(stableSymbols) ==
    [s \in {config.stableSymbols[i] : i \in DOMAIN config.stableSymbols} |-> 1 * PriceScale]

\* line 116: Object.fromEntries(stableSymbols.map((symbol) => [symbol, 1]))
hardFallback(stableSymbols) == [s \in stableSymbols |-> 1 * PriceScale]

\* getPriceUsd(symbol), lines 57-65
GetPriceUsdBegin(c, symbol) ==
    LET normalized == Normalize(symbol)
        freshCached == readCachedValue(cache, normalized, FALSE, now)
    IN  /\ FirstFree(c)
        /\ started < MaxCalls
        /\ started' = started + 1
        /\ IF freshCached # Nil
           THEN /\ telemetry' = Bump(telemetry, "cacheFreshHits")
                /\ lastCall' = Returned("getPriceUsd", normalized, freshCached,
                                        NoValues, "fresh", 0)
                /\ UNCHANGED <<calls, httpRequests>>
           ELSE /\ EnterFetch(c, "getPriceUsd", normalized, {normalized})
                /\ lastCall' = NoCall
                /\ UNCHANGED telemetry
        /\ UNCHANGED <<now, config, cache, rateLimitedUntilMs, warningLastLoggedAt,
                       last429At, warnLog, provenance, guardCall, yieldVars,
                   engineVars, reportVars, adapterVars, warnVars>>

\* getStablePricesUsd(), lines 91-99
GetStablePricesUsdBegin(c) ==
    LET stableSymbols == normalizeSymbols(config.stableSymbols)
        freshCached == readCachedSnapshot(cache, stableSymbols, FALSE, now)
    IN  /\ FirstFree(c)
        /\ started < MaxCalls
        /\ started' = started + 1
        /\ IF freshCached.hit
           THEN /\ telemetry' = Bump(telemetry, "cacheFreshHits")
                /\ lastCall' = Returned("getStablePricesUsd", "", Nil,
                                        freshCached.values, "fresh", 0)
                /\ UNCHANGED <<calls, httpRequests>>
           ELSE /\ EnterFetch(c, "getStablePricesUsd", "", stableSymbols)
                /\ lastCall' = NoCall
                /\ UNCHANGED telemetry
        /\ UNCHANGED <<now, config, cache, rateLimitedUntilMs, warningLastLoggedAt,
                       last429At, warnLog, provenance, guardCall, yieldVars,
                   engineVars, reportVars, adapterVars, warnVars>>

\* fetchPrices, lines 159-193: the upstream answers the request of call c
FetchRespond(c, response) ==
    /\ calls[c].pc = "inflight"
    /\ calls' = [calls EXCEPT ![c].pc = "settled",
                              ![c].outcome = fetchPricesSettle(calls[c].symbols, response)]
    /\ rateLimitedUntilMs' = rateLimitAfter(response, now, rateLimitedUntilMs)
    /\ last429At' = IF response.kind = "http" /\ response.status = 429
                    THEN now ELSE last429At
    /\ lastCall' = NoCall
    /\ UNCHANGED <<now, config, cache, warningLastLoggedAt, telemetry,
                   started, httpRequests, warnLog, provenance, guardCall, yieldVars,
                   engineVars, reportVars, adapterVars, warnVars>>

\* getPriceUsd, lines 66-87: after `await this.fetchPrices([normalized])`
GetPriceUsdContinue(c) ==
    LET normalized == calls[c].symbol
        fetched == calls[c].outcome
        \* line 67: value === undefined throws inside the try
        outcome == IF fetched.ok /\ normalized \notin DOMAIN fetched.values
                   THEN Rejected("price_unavailable") ELSE fetched
        staleCached == readCachedValue(cache, normalized, TRUE, now)
    IN  /\ calls[c].pc = "settled"
        /\ calls[c].op = "getPriceUsd"
        /\ calls' = [calls EXCEPT ![c] = IdleCall]
        /\ IF outcome.ok
           THEN /\ cache' = writeCache(cache, normalized, outcome.values[normalized],
                                       config.cacheTtlMs, now)
                /\ telemetry' = Bump(telemetry, "networkFetchSuccesses")
                /\ provenance' = noteFetched(provenance, {normalized})
                /\ lastCall' = Returned("getPriceUsd", normalized,
                                        outcome.values[normalized], NoValues,
                                        "network", calls[c].requests)
                /\ UNCHANGED <<warningLastLoggedAt, warnLog>>
           ELSE IF staleCached # Nil
           THEN /\ cache' = writeCache(cache, normalized, staleCached,
                                       staleFallbackTtlMs, now)
                /\ telemetry' = Bump(Bump(telemetry, "fetchFailures"),
                                     "staleFallbackHits")
                /\ warningLastLoggedAt' =
                       warnWithCooldown(warningLastLoggedAt, SingleKey(normalized), now)
                /\ warnLog' = consoleWarn(warnLog, warningLastLoggedAt,
                                          SingleKey(normalized), now)
                /\ provenance' = noteRearmed(provenance, {normalized}, now)
                /\ lastCall' = Returned("getPriceUsd", normalized, staleCached,
                                        NoValues, "stale", calls[c].requests)
           ELSE /\ telemetry' = Bump(telemetry, "fetchFailures")
                /\ lastCall' = Thrown("getPriceUsd", normalized, outcome.error,
                                      calls[c].requests)
                /\ UNCHANGED <<cache, warningLastLoggedAt, warnLog, provenance>>
        /\ UNCHANGED <<now, config, rateLimitedUntilMs, started, httpRequests,
                       last429At, guardCall, yieldVars,
                   engineVars, reportVars, adapterVars, warnVars>>

\* getStablePricesUsd, lines 100-124: after `await this.fetchPrices(stableSymbols)`
GetStablePricesUsdContinue(c) ==
    LET stableSymbols == calls[c].symbols
        outcome == calls[c].outcome
        fallback == readCachedSnapshot(cache, stableSymbols, TRUE, now)
    IN  /\ calls[c].pc = "settled"
        /\ calls[c].op = "getStablePricesUsd"
        /\ calls' = [calls EXCEPT ![c] = IdleCall]
        /\ IF outcome.ok
           THEN /\ cache' = writeCacheSnapshot(cache, outcome.values,
                                               config.cacheTtlMs, now)
                /\ telemetry' = Bump(telemetry, "networkFetchSuccesses")
                /\ provenance' = noteFetched(provenance, DOMAIN outcome.values)
                /\ lastCall' = Returned("getStablePricesUsd", "", Nil,
                                        outcome.values, "network", calls[c].requests)
                /\ UNCHANGED <<warningLastLoggedAt, warnLog>>
           ELSE IF fallback.hit
           THEN /\ cache' = writeCacheSnapshot(cache, fallback.values,
                                               staleFallbackTtlMs, now)
                /\ telemetry' = Bump(Bump(telemetry, "fetchFailures"),
                                     "stableFallbackHits")
                /\ warningLastLoggedAt' =
                       warnWithCooldown(warningLastLoggedAt, StableFallbackKey, now)
                /\ warnLog' = consoleWarn(warnLog, warningLastLoggedAt,
                                          StableFallbackKey, now)
                /\ provenance' = noteRearmed(provenance, stableSymbols, now)
                /\ lastCall' = Returned("getStablePricesUsd", "", Nil,
                                        fallback.values, "stale", calls[c].requests)
           ELSE /\ cache' = writeCacheSnapshot(cache, hardFallback(stableSymbols),
                                               staleFallbackTtlMs, now)
                /\ telemetry' = Bump(Bump(telemetry, "fetchFailures"),
                                     "stableFallbackHits")
                /\ warningLastLoggedAt' =
                       warnWithCooldown(warningLastLoggedAt, StableHardFallbackKey, now)
                /\ warnLog' = consoleWarn(warnLog, warningLastLoggedAt,
                                          StableHardFallbackKey, now)
                /\ provenance' = noteAssumed(provenance, stableSymbols, now)
                /\ lastCall' = Returned("getStablePricesUsd", "", Nil,
                                        hardFallback(stableSymbols), "hard",
                                        calls[c].requests)
        /\ UNCHANGED <<now, config, rateLimitedUntilMs, started, httpRequests,
                       last429At, guardCall, yieldVars,
                   engineVars, reportVars, adapterVars, warnVars>>

\* the wall clock advances
Tick ==
    /\ now < EpochStart + MaxTicks
    /\ now' = now + 1
    /\ lastCall' = NoCall
    /\ UNCHANGED <<config, cache, rateLimitedUntilMs, warningLastLoggedAt,
                   telemetry, calls, started, httpRequests, last429At,
                   warnLog, provenance, guardCall, yieldVars,
                   engineVars, reportVars, adapterVars, warnVars>>

NoGuardCall == [guard |-> "none"]

\* no yield-math function evaluated yet
NoYieldCall == [fn |-> "none"]

\* the config module before it is loaded
NotLoaded == [pc |-> "unloaded"]

\* the rotation policy before its first tick: CURRENT_POSITION = none, no
\* rotation made, nothing broadcast
NoPosition == [poolId |-> "none", enteredAt |-> 0]
EngineStart ==
    [clock |-> 0, position |-> NoPosition, lastRotationAt |-> Nil,
     rotationDay |-> 0, rotationsToday |-> 0]
NoDecision == [action |-> "none"]

\* migration-report before main() runs
NotRun == [pc |-> "idle"]

\* no adapter method called yet
NoAdapterCall == [method |-> "none"]

\* warnWithCooldown not called on its own yet
NoWarnCall == [key |-> [k |-> "none", s |-> ""], at |-> 0, logged |-> FALSE]

\* the oracle after construction (lines 33-54)
Init ==
    /\ now = EpochStart
    /\ config \in Configs
    /\ cache = << >>
    /\ rateLimitedUntilMs = 0
    /\ warningLastLoggedAt = << >>
    /\ telemetry = [cacheFreshHits |-> 0, staleFallbackHits |-> 0,
                    stableFallbackHits |-> 0, networkFetchSuccesses |-> 0,
                    fetchFailures |-> 0]
    /\ calls = [c \in Callers |-> IdleCall]
    /\ lastCall = NoCall
    /\ started = 0
    /\ httpRequests = 0
    /\ last429At = Nil
    /\ warnLog = << >>
    /\ provenance = << >>
    /\ guardCall = NoGuardCall
    /\ yieldCall = NoYieldCall
    /\ runtime = NotLoaded
    /\ engine = EngineStart
    /\ decision = NoDecision
    /\ migration = NotRun
    /\ adapterCall = NoAdapterCall
    /\ warnCall = NoWarnCall

Next ==
    \/ \E c \in Callers, symbol \in RawSymbols : GetPriceUsdBegin(c, symbol)
    \/ \E c \in Callers : GetStablePricesUsdBegin(c)
    \/ \E c \in Callers : \E response \in Responses(calls[c].symbols) :
           FetchRespond(c, response)
    \/ \E c \in Callers : GetPriceUsdContinue(c)
    \/ \E c \in Callers : GetStablePricesUsdContinue(c)
    \/ Tick

Spec == Init /\ [][Next]_vars

----------------------------------------------------------------------------
(* The guard evaluators (services/guards.ts) *)

\* Math.round(n / d) for d > 0: the nearest integer, halves towards +infinity
RoundDiv(n, d) == (2 * n + d) \div (2 * d)

Abs(x) == IF x < 0 THEN -x ELSE x

\* deviationBpsFromDollar: Math.round(Math.abs(price - 1) * 10_000)
deviationBpsFromDollar(price) == RoundDiv(Abs(price - PriceScale) * 10000, PriceScale)

\* faulty variant: >= in place of >
depegExceeds_inclusive(bps, maxDeviationBps) == bps >= maxDeviationBps

\* whether deviations.some((item) => item.bps > maxDeviationBps)
depegExceeds(bps, maxDeviationBps) == bps > maxDeviationBps

\* faulty variant: an empty price map passes the guard
depegGuard_emptyOk(stablePricesUsd, maxDeviationBps) ==
    IF \E symbol \in DOMAIN stablePricesUsd :
            depegExceeds(deviationBpsFromDollar(stablePricesUsd[symbol]),
                         maxDeviationBps)
    THEN [triggered |-> TRUE, reason |-> "DEPEG_GUARD_TRIGGERED",
          details |-> "deviations"]
    ELSE [triggered |-> FALSE, reason |-> "DEPEG_GUARD_OK", details |-> ""]

\* depegGuard(stablePricesUsd, maxDeviationBps)
depegGuard(stablePricesUsd, maxDeviationBps) ==
    IF DOMAIN stablePricesUsd = {}
    THEN [triggered |-> TRUE, reason |-> "DEPEG_GUARD_TRIGGERED",
          details |-> "No stable prices available."]
    ELSE IF \E symbol \in DOMAIN stablePricesUsd :
                depegExceeds(deviationBpsFromDollar(stablePricesUsd[symbol]),
                             maxDeviationBps)
    THEN [triggered |-> TRUE, reason |-> "DEPEG_GUARD_TRIGGERED",
          details |-> "deviations"]
    ELSE [triggered |-> FALSE, reason |-> "DEPEG_GUARD_OK", details |-> ""]

\* a PoolSnapshot | undefined, as far as aprCliffGuard reads it
Undefined == [defined |-> FALSE, incentiveAprBps |-> 0]
Snapshot(incentiveAprBps) == [defined |-> TRUE, incentiveAprBps |-> incentiveAprBps]

\* Math.round((drop / previousIncentive) * 10_000), previousIncentive > 0
dropBpsOf(previousIncentive, currentIncentive) ==
    RoundDiv((previousIncentive - currentIncentive) * 10000, previousIncentive)

\* faulty variant: >= in place of >
cliffExceeds_inclusive(dropBps, minDropBps) == dropBps >= minDropBps

\* line 81: dropBps > minDropBps
cliffExceeds(dropBps, minDropBps) == dropBps > minDropBps

\* aprCliffGuard(currentSnapshot, previousSnapshot, minDropBps)
aprCliffGuard(currentSnapshot, previousSnapshot, minDropBps) ==
    IF ~currentSnapshot.defined \/ ~previousSnapshot.defined
    THEN [triggered |-> FALSE, reason |-> "APR_CLIFF_GUARD_NOT_ENOUGH_DATA",
          details |-> ""]
    ELSE IF previousSnapshot.incentiveAprBps <= 0
    THEN [triggered |-> FALSE, reason |-> "APR_CLIFF_GUARD_PREV_ZERO", details |-> ""]
    ELSE IF cliffExceeds(dropBpsOf(previousSnapshot.incentiveAprBps,
                                   currentSnapshot.incentiveAprBps), minDropBps)
    THEN [triggered |-> TRUE, reason |-> "APR_CLIFF_GUARD_TRIGGERED",
          details |-> "incentiveDrop"]
    ELSE [triggered |-> FALSE, reason |-> "APR_CLIFF_GUARD_OK", details |-> ""]

\* inputs of the guards
GuardPrices == {PriceScale, PriceScale + 500, PriceScale + 1000, PriceScale + 1004,
                PriceScale + 1005, PriceScale + 2000, PriceScale - 1005,
                PriceScale - 2000}
StablePriceMaps ==
    UNION {[symbols -> GuardPrices] : symbols \in SUBSET Symbols}
DepegThresholds == {0, 50, 100, 200}
IncentiveAprs == {-5, 0, 2, 3, 400, 499, 500, 1000, 1200, 20002, 10000}
SnapshotInputs == {Undefined} \cup {Snapshot(i) : i \in IncentiveAprs}
CliffThresholds == {0, 3333, 5000, 6000}

EvalDepegGuard(stablePricesUsd, maxDeviationBps) ==
    /\ guardCall' = [guard |-> "depeg", prices |-> stablePricesUsd,
                     threshold |-> maxDeviationBps,
                     result |-> depegGuard(stablePricesUsd, maxDeviationBps)]
    /\ UNCHANGED <<oracleVars, yieldVars, engineVars, reportVars, adapterVars, warnVars>>

EvalAprCliffGuard(currentSnapshot, previousSnapshot, minDropBps) ==
    /\ guardCall' = [guard |-> "aprCliff", current |-> currentSnapshot,
                     previous |-> previousSnapshot, threshold |-> minDropBps,
                     result |-> aprCliffGuard(currentSnapshot, previousSnapshot,
                                              minDropBps)]
    /\ UNCHANGED <<oracleVars, yieldVars, engineVars, reportVars, adapterVars, warnVars>>

GuardNext ==
    \/ \E prices \in StablePriceMaps, max \in DepegThresholds :
           EvalDepegGuard(prices, max)
    \/ \E current \in SnapshotInputs, previous \in SnapshotInputs,
          min \in CliffThresholds :
           EvalAprCliffGuard(current, previous, min)

GuardSpec == Init /\ [][GuardNext]_vars

----------------------------------------------------------------------------
(* Yield math (computeNetApyBps, estimatePaybackHours) *)

\* faulty variant: the Math.max(0, ...) floor is missing
computeNetApyBps_noFloor(baseApyBps, incentiveAprBps, protocolFeeBps) ==
    baseApyBps + incentiveAprBps - protocolFeeBps

\* computeNetApyBps: Math.max(0, baseApyBps + incentiveAprBps - protocolFeeBps)
computeNetApyBps(baseApyBps, incentiveAprBps, protocolFeeBps) ==
    Max(0, baseApyBps + incentiveAprBps - protocolFeeBps)

\* a JavaScript number as estimatePaybackHours produces it: +Infinity, or the
\* exact quotient num / den with den > 0
PositiveInfinity == [infinite |-> TRUE, num |-> 1, den |-> 1]
Quotient(num, den) == [infinite |-> FALSE, num |-> num, den |-> den]

\* faulty variant: hours of one day only, the factor 365 is missing
estimatePaybackHours_perDay(costBps, deltaApyBps) ==
    IF deltaApyBps <= 0
    THEN PositiveInfinity
    ELSE Quotient(costBps * 24, deltaApyBps)

\* faulty variant: the fraction of a year, not converted to hours
estimatePaybackHours_yearFraction(costBps, deltaApyBps) ==
    IF deltaApyBps <= 0
    THEN PositiveInfinity
    ELSE Quotient(costBps, deltaApyBps)

\* estimatePaybackHours: Infinity if deltaApyBps <= 0, else
\* (costBps / deltaApyBps) * 365 * 24
estimatePaybackHours(costBps, deltaApyBps) ==
    IF deltaApyBps <= 0
    THEN PositiveInfinity
    ELSE Quotient(costBps * 365 * 24, deltaApyBps)

\* inputs of the yield functions
ApyBpsInputs == {-50, 0, 50, 100, 350}
FeeBpsInputs == {0, 10, 200, 500}
CostBpsInputs == {0, 12, 16, 100}
DeltaBpsInputs == {-300, -1, 0, 1, 200, 300, 1460}

EvalNetApyBps(baseApyBps, incentiveAprBps, protocolFeeBps) ==
    /\ yieldCall' = [fn |-> "netApy", base |-> baseApyBps,
                     incentive |-> incentiveAprBps, fee |-> protocolFeeBps,
                     result |-> computeNetApyBps(baseApyBps, incentiveAprBps,
                                                 protocolFeeBps)]
    /\ UNCHANGED <<oracleVars, guardCall, engineVars, reportVars, adapterVars, warnVars>>

EvalPaybackHours(costBps, deltaApyBps) ==
    /\ yieldCall' = [fn |-> "payback", cost |-> costBps, delta |-> deltaApyBps,
                     result |-> estimatePaybackHours(costBps, deltaApyBps)]
    /\ UNCHANGED <<oracleVars, guardCall, engineVars, reportVars, adapterVars, warnVars>>

YieldNext ==
    \/ \E base \in ApyBpsInputs, incentive \in ApyBpsInputs, fee \in FeeBpsInputs :
           EvalNetApyBps(base, incentive, fee)
    \/ \E cost \in CostBpsInputs, delta \in DeltaBpsInputs :
           EvalPaybackHours(cost, delta)

YieldSpec == Init /\ [][YieldNext]_vars

----------------------------------------------------------------------------
(* The config module: process environment -> POLICY, POOLS, RUNTIME *)
(* Engine time is counted in units of 21600 s; a calendar day is 4 units.  *)

\* String.prototype.toLowerCase on the values the environment holds here
ToLowerCase(raw) ==
    CASE raw = "TRUE" -> "true"
      [] raw = "False" -> "false"
      [] raw = "0xUsDc" -> "0xusdc"
      [] raw = "0xDaI" -> "0xdai"
      [] OTHER -> raw

\* faulty variant: the fallback is returned negated
envBool_negatedFallback(raw, fallback) ==
    IF raw = "" THEN ~fallback ELSE ToLowerCase(raw) = "true"

\* envBool(name, fallback); raw = "" stands for an unset or empty variable
envBool(raw, fallback) ==
    IF raw = "" THEN fallback ELSE ToLowerCase(raw) = "true"

\* a numeric environment variable: unset, a number, or text that is no number
EnvUnset == [set |-> FALSE, nan |-> FALSE, num |-> 0]
EnvNum(n) == [set |-> TRUE, nan |-> FALSE, num |-> n]
EnvNaN == [set |-> TRUE, nan |-> TRUE, num |-> 0]

\* envNumber(name, fallback): [throws, value]
envNumber(raw, fallback) ==
    IF ~raw.set THEN [throws |-> FALSE, value |-> fallback]
    ELSE IF raw.nan THEN [throws |-> TRUE, value |-> 0]
    ELSE [throws |-> FALSE, value |-> raw.num]

\* POLICY (minHoldSeconds comes from the environment)
POLICY ==
    [rotationDeltaApyBps |-> 200, maxPaybackHours |-> 72, depegThresholdBps |-> 100,
     maxPriceImpactBps |-> 30, aprCliffDropBps |-> 5000]

\* defaults of RUNTIME, in engine time units
DefaultCooldownSeconds == 1
DefaultMaxRotationsPerDay == 1
DefaultMinHoldSeconds == 0

\* the pools of POOLS the model enables, with the fields the policy reads
PoolIds == {"curvance-usdc-market", "morpho-usdc-vault"}
PoolConfig ==
    [poolId \in PoolIds |->
        IF poolId = "curvance-usdc-market"
        THEN [baseApyBps |-> 408, protocolFeeBps |-> 8, rotationCostBps |-> 12]
        ELSE [baseApyBps |-> 390, protocolFeeBps |-> 8, rotationCostBps |-> 1]]

ZERO_ADDRESS == "0x0000000000000000000000000000000000000000"

\* the enablement flag and the four addresses of a POOLS entry, as the
\* environment and the chain config yield them
PoolAddresses(enabled, target, pool, lpToken, tokenIn) ==
    [enabled |-> enabled, target |-> target, pool |-> pool, lpToken |-> lpToken,
     tokenIn |-> tokenIn]
DeployedPool == PoolAddresses(TRUE, "0xTaRgEt", "0xPoOl", "0xLp", "0xUsDc")
DeployedPools == [poolId \in PoolIds |-> DeployedPool]

\* faulty variant: only the target address is looked at
enabledPoolHasZeroAddress_targetOnly(pools) ==
    \E poolId \in DOMAIN pools :
        pools[poolId].enabled /\ pools[poolId].target = ZERO_ADDRESS

\* lines 309-317: POOLS.some((pool) => pool.enabled && (... === ZERO_ADDRESS))
enabledPoolHasZeroAddress(pools) ==
    \E poolId \in DOMAIN pools :
        /\ pools[poolId].enabled
        /\ \/ pools[poolId].target = ZERO_ADDRESS
           \/ pools[poolId].pool = ZERO_ADDRESS
           \/ pools[poolId].lpToken = ZERO_ADDRESS
           \/ pools[poolId].tokenIn = ZERO_ADDRESS

\* process environments
EnvBase ==
    [DRY_RUN |-> "", LIVE_MODE_ARMED |-> "", ENTER_ONLY |-> "",
     BOT_EXECUTOR_PRIVATE_KEY |-> TRUE, VAULT_ADDRESS |-> "0xVaUlT",
     POOLS |-> DeployedPools,
     MAX_ROTATIONS_PER_DAY |-> EnvUnset, COOLDOWN_SECONDS |-> EnvUnset,
     MIN_HOLD_SECONDS |-> EnvUnset]
Environments ==
    { EnvBase,
      [EnvBase EXCEPT !.LIVE_MODE_ARMED = "TRUE", !.MAX_ROTATIONS_PER_DAY = EnvNum(2),
                      !.COOLDOWN_SECONDS = EnvNum(2)],
      [EnvBase EXCEPT !.DRY_RUN = "false", !.MIN_HOLD_SECONDS = EnvNum(2)],
      [EnvBase EXCEPT !.DRY_RUN = "False", !.LIVE_MODE_ARMED = "true",
                      !.MAX_ROTATIONS_PER_DAY = EnvNum(2),
                      !.COOLDOWN_SECONDS = EnvNum(0)],
      [EnvBase EXCEPT !.DRY_RUN = "0", !.LIVE_MODE_ARMED = "true",
                      !.ENTER_ONLY = "true", !.MIN_HOLD_SECONDS = EnvNum(-1)],
      [EnvBase EXCEPT !.DRY_RUN = "false", !.BOT_EXECUTOR_PRIVATE_KEY = FALSE],
      [EnvBase EXCEPT !.DRY_RUN = "false", !.VAULT_ADDRESS = "undefined"],
      [EnvBase EXCEPT !.DRY_RUN = "false", !.VAULT_ADDRESS = ZERO_ADDRESS],
      [EnvBase EXCEPT !.DRY_RUN = "false", !.VAULT_ADDRESS = ""],
      [EnvBase EXCEPT !.DRY_RUN = "false",
                      !.POOLS["curvance-usdc-market"].target = ZERO_ADDRESS],
      [EnvBase EXCEPT !.DRY_RUN = "false",
                      !.POOLS["curvance-usdc-market"].pool = ZERO_ADDRESS],
      [EnvBase EXCEPT !.DRY_RUN = "false",
                      !.POOLS["morpho-usdc-vault"].lpToken = ZERO_ADDRESS],
      [EnvBase EXCEPT !.DRY_RUN = "false",
                      !.POOLS["morpho-usdc-vault"].tokenIn = ZERO_ADDRESS],
      [EnvBase EXCEPT !.DRY_RUN = "false",
                      !.POOLS["morpho-usdc-vault"] =
                          PoolAddresses(FALSE, ZERO_ADDRESS, ZERO_ADDRESS,
                                        ZERO_ADDRESS, "0xUsDc")],
      [EnvBase EXCEPT !.DRY_RUN = "TRUE", !.VAULT_ADDRESS = "undefined",
                      !.BOT_EXECUTOR_PRIVATE_KEY = FALSE,
                      !.POOLS["morpho-usdc-vault"].lpToken = ZERO_ADDRESS],
      [EnvBase EXCEPT !.VAULT_ADDRESS = "undefined", !.BOT_EXECUTOR_PRIVATE_KEY = FALSE,
                      !.COOLDOWN_SECONDS = EnvNaN] }

\* line 290: process.env.VAULT_ADDRESS ?? ZERO_ADDRESS; "undefined" stands for
\* an unset variable, "" for one set to the empty string
vaultAddress(env) ==
    IF env.VAULT_ADDRESS = "undefined" THEN ZERO_ADDRESS ELSE env.VAULT_ADDRESS

\* RUNTIME as the module builds it from the environment
RUNTIME(env) ==
    [dryRun |-> envBool(env.DRY_RUN, TRUE),
     liveModeArmed |-> envBool(env.LIVE_MODE_ARMED, FALSE),
     enterOnlyMode |-> envBool(env.ENTER_ONLY, FALSE),
     maxRotationsPerDay |->
         envNumber(env.MAX_ROTATIONS_PER_DAY, DefaultMaxRotationsPerDay).value,
     cooldownSeconds |-> envNumber(env.COOLDOWN_SECONDS, DefaultCooldownSeconds).value,
     minHoldSeconds |->
         Max(0, envNumber(env.MIN_HOLD_SECONDS, DefaultMinHoldSeconds).value)]

\* the error the module throws while loading, "" if it loads
configError(env) ==
    LET rt == RUNTIME(env)
    IN  IF \/ envNumber(env.MIN_HOLD_SECONDS, DefaultMinHoldSeconds).throws
           \/ envNumber(env.MAX_ROTATIONS_PER_DAY, DefaultMaxRotationsPerDay).throws
           \/ envNumber(env.COOLDOWN_SECONDS, DefaultCooldownSeconds).throws
        THEN "invalid_number"
        ELSE IF ~rt.dryRun /\ ~env.BOT_EXECUTOR_PRIVATE_KEY
        THEN "executor_key_required"
        ELSE IF ~rt.dryRun /\ vaultAddress(env) = ZERO_ADDRESS
        THEN "vault_address_required"
        ELSE IF ~rt.dryRun /\ enabledPoolHasZeroAddress(env.POOLS)
        THEN "pool_addresses_required"
        ELSE ""

\* the module is evaluated once, at startup
LoadConfig(env) ==
    /\ runtime.pc = "unloaded"
    /\ runtime' =
          IF configError(env) # ""
          THEN [pc |-> "failed", env |-> env, error |-> configError(env)]
          ELSE [pc |-> "loaded", env |-> env, error |-> "",
                guardedWarning |-> ~RUNTIME(env).dryRun /\ ~RUNTIME(env).liveModeArmed]
                  @@ RUNTIME(env)
    /\ UNCHANGED <<oracleVars, guardCall, yieldVars, engine, decision, reportVars, adapterVars, warnVars>>

----------------------------------------------------------------------------
(* The rotation policy (decision engine), one decision per scan tick *)

\* number of scan ticks explored
MaxScans == 5
UnitsPerDay == 4

\* faulty variant: >= in place of >
slippageGuard_inclusive(snapshot, maxPriceImpactBps) ==
    IF snapshot.slippageBps >= maxPriceImpactBps
    THEN [triggered |-> TRUE, reason |-> "SLIPPAGE_GUARD_TRIGGERED", details |-> "impact"]
    ELSE [triggered |-> FALSE, reason |-> "SLIPPAGE_GUARD_OK", details |-> ""]

\* slippageGuard(snapshot, maxPriceImpactBps)
slippageGuard(snapshot, maxPriceImpactBps) ==
    IF snapshot.slippageBps > maxPriceImpactBps
    THEN [triggered |-> TRUE, reason |-> "SLIPPAGE_GUARD_TRIGGERED", details |-> "impact"]
    ELSE [triggered |-> FALSE, reason |-> "SLIPPAGE_GUARD_OK", details |-> ""]

\* a PoolSnapshot as the policy reads it
PoolSnapshot(incentiveAprBps, slippageBps) ==
    [defined |-> TRUE, incentiveAprBps |-> incentiveAprBps, slippageBps |-> slippageBps]

\* inputs of a tick
TickIncentives ==
    [poolId \in PoolIds |->
        IF poolId = "curvance-usdc-market" THEN {0, 132, 182} ELSE {0, 318, 1478}]
\* price impact of the intended trade size, the same in every pool of a tick
TickSlippages == {10, 31}
TickSnapshots ==
    {[poolId \in PoolIds |-> PoolSnapshot(inc[poolId], slip)] :
        inc \in {f \in [PoolIds -> {0, 132, 182, 318, 1478}] :
                    \A poolId \in PoolIds : f[poolId] \in TickIncentives[poolId]},
        slip \in TickSlippages}
TickStablePrices ==
    {<< >>, [symbol \in {"USDC"} |-> PriceScale],
     [symbol \in {"USDC"} |-> PriceScale + 2000]}

netApyOf(snapshots, poolId) ==
    computeNetApyBps(PoolConfig[poolId].baseApyBps, snapshots[poolId].incentiveAprBps,
                     PoolConfig[poolId].protocolFeeBps)

\* the highest-net-APY pool among candidates (the first of them on a tie)
bestPool(snapshots, candidates) ==
    CHOOSE poolId \in candidates :
        \A other \in candidates :
            \/ netApyOf(snapshots, poolId) > netApyOf(snapshots, other)
            \/ /\ netApyOf(snapshots, poolId) = netApyOf(snapshots, other)
               /\ (poolId = "curvance-usdc-market" \/ other = poolId)

\* payback <= maxPaybackHours, on the number estimatePaybackHours returned
withinHours(payback, hours) == ~payback.infinite /\ payback.num <= hours * payback.den

\* rotations counted for the calendar day of the clock
rotationsOn(eng) ==
    IF eng.rotationDay = eng.clock \div UnitsPerDay THEN eng.rotationsToday ELSE 0

\* time since the last rotation exceeds cooldownSeconds
cooldownPassed(rt, eng) ==
    eng.lastRotationAt = Nil \/ eng.clock - eng.lastRotationAt > rt.cooldownSeconds

\* step 4: the five conditions of a rotation from the held pool to candidate
rotationAllowed(rt, eng, snapshots, candidate) ==
    LET held == eng.position.poolId
        delta == netApyOf(snapshots, candidate) - netApyOf(snapshots, held)
    IN  /\ delta >= POLICY.rotationDeltaApyBps
        /\ withinHours(estimatePaybackHours(PoolConfig[held].rotationCostBps, delta),
                       POLICY.maxPaybackHours)
        /\ eng.clock - eng.position.enteredAt >= rt.minHoldSeconds
        /\ rotationsOn(eng) < rt.maxRotationsPerDay
        /\ cooldownPassed(rt, eng)

\* the decision of one tick: [action, from, to]
Hold == [action |-> "HOLD", from |-> "none", to |-> "none"]
decide(rt, eng, snapshots, previous, stablePricesUsd) ==
    LET held == eng.position.poolId
        positioned == held # "none"
        candidate == bestPool(snapshots, PoolIds \ {held})
    IN  IF depegGuard(stablePricesUsd, POLICY.depegThresholdBps).triggered
        THEN IF rt.enterOnlyMode /\ positioned
             THEN [action |-> "EXIT", from |-> held, to |-> "none"]
             ELSE Hold
        ELSE IF positioned
        THEN IF \/ slippageGuard(snapshots[held], POLICY.maxPriceImpactBps).triggered
                \/ aprCliffGuard(snapshots[held], previous[held],
                                 POLICY.aprCliffDropBps).triggered
             THEN [action |-> "EXIT", from |-> held, to |-> "none"]
             ELSE IF rotationAllowed(rt, eng, snapshots, candidate)
             THEN [action |-> "ROTATE", from |-> held, to |-> candidate]
             ELSE Hold
        ELSE IF cooldownPassed(rt, eng)
        THEN [action |-> "ENTER", from |-> "none", to |-> candidate]
        ELSE Hold

\* step 6: requests are built unless dryRun, and reach the execution
\* boundary only if live mode is armed as well
requestsBuilt(rt, d) == d.action # "HOLD" /\ ~rt.dryRun
requestsBroadcast(rt, d) == requestsBuilt(rt, d) /\ rt.liveModeArmed

\* CURRENT_POSITION and the rotation counters after a decision
engineAfter(eng, d) ==
    LET day == eng.clock \div UnitsPerDay
        moved ==
            CASE d.action = "ENTER" ->
                    [eng EXCEPT !.position = [poolId |-> d.to, enteredAt |-> eng.clock]]
              [] d.action = "EXIT" -> [eng EXCEPT !.position = NoPosition]
              [] d.action = "ROTATE" ->
                    [eng EXCEPT !.position = [poolId |-> d.to, enteredAt |-> eng.clock],
                                !.lastRotationAt = eng.clock,
                                !.rotationDay = day,
                                !.rotationsToday = rotationsOn(eng) + 1]
              [] OTHER -> eng
    IN  [moved EXCEPT !.clock = eng.clock + 1]

NoSnapshots == [poolId \in PoolIds |-> Undefined]

\* one scan tick: pull snapshots and prices, decide, build, forward
ScanTick(snapshots, stablePricesUsd) ==
    /\ runtime.pc = "loaded"
    /\ engine.clock < MaxScans
    /\ LET previous == IF decision.action = "none" THEN NoSnapshots
                       ELSE decision.snapshots
           d == decide(runtime, engine, snapshots, previous, stablePricesUsd)
       IN  /\ decision' = d @@ [snapshots |-> snapshots,
                                stablePricesUsd |-> stablePricesUsd,
                                built |-> requestsBuilt(runtime, d),
                                broadcast |-> requestsBroadcast(runtime, d)]
           /\ engine' = engineAfter(engine, d)
    /\ UNCHANGED <<oracleVars, guardCall, yieldVars, runtime, reportVars, adapterVars, warnVars>>

EngineNext ==
    \/ \E env \in Environments : LoadConfig(env)
    \/ \E snapshots \in TickSnapshots, stablePricesUsd \in TickStablePrices :
           ScanTick(snapshots, stablePricesUsd)

\* the process starts with one oracle configuration
EngineInit == Init /\ config.rateLimitCooldownMs = 2

EngineSpec == EngineInit /\ [][EngineNext]_vars

----------------------------------------------------------------------------
(* The migration report (migration-report.ts): one run of main() *)

\* TOKENS.USDC, as the chain configuration spells it
TokenUsdc == "0xUsDc"

\* bigint.toString(): the decimal digits of a balance, most significant first
RECURSIVE toString(_)
toString(n) == IF n < 10 THEN <<n>> ELSE toString(n \div 10) \o <<n % 10>>

\* BigInt(text) on a string of decimal digits
RECURSIVE BigInt(_)
BigInt(digits) ==
    IF Len(digits) = 0 THEN 0
    ELSE 10 * BigInt(SubSeq(digits, 1, Len(digits) - 1)) + digits[Len(digits)]

\* the outcome of one client.readContract call
RpcOk(value) == [ok |-> TRUE, value |-> value]
\* a failed call of a uint256, an address and a bool function
RpcFail == [ok |-> FALSE, value |-> 0]
RpcFailAddress == [ok |-> FALSE, value |-> ""]
RpcFailBool == [ok |-> FALSE, value |-> FALSE]

\* what the chain answers for one vault: balanceOf(USDC), balanceOf(lpToken)
\* per pool, depositToken(), totalUserShares(), hasOpenLpPosition()
VaultReads(usdc, lp, deposit, shares, open) ==
    [usdc |-> usdc, lp |-> lp, depositToken |-> deposit,
     totalUserShares |-> shares, hasOpenLpPosition |-> open]
LpReads ==
    {[poolId \in PoolIds |-> RpcOk(0)],
     [poolId \in PoolIds |->
         IF poolId = "morpho-usdc-vault" THEN RpcOk(25) ELSE RpcOk(0)],
     [poolId \in PoolIds |-> RpcOk(120)],
     [poolId \in PoolIds |->
         IF poolId = "morpho-usdc-vault" THEN RpcFail ELSE RpcOk(0)]}
UserFlowReads ==
    {<<RpcOk(TokenUsdc), RpcOk(7), RpcOk(TRUE)>>,
     <<RpcOk("0xusdc"), RpcOk(0), RpcOk(FALSE)>>,
     <<RpcOk("0xDaI"), RpcOk(7), RpcOk(TRUE)>>,
     <<RpcFailAddress, RpcFail, RpcFailBool>>,
     <<RpcFailAddress, RpcOk(7), RpcOk(TRUE)>>,
     <<RpcOk(TokenUsdc), RpcFail, RpcFailBool>>}
VaultChains ==
    {VaultReads(RpcOk(5000000), lp, flow[1], flow[2], flow[3]) :
        lp \in LpReads, flow \in UserFlowReads}
    \cup {VaultReads(RpcFail, [poolId \in PoolIds |-> RpcOk(0)], RpcFailAddress,
                     RpcFail, RpcFailBool)}

\* a settled promise
Fulfilled(value) == [state |-> "fulfilled", value |-> value]
RejectedPromise == [state |-> "rejected"]
Pending == [state |-> "pending"]

\* faulty variant: every pool must hold a balance for the vault to count as exposed
hasLpExposure_every(poolLpBalances) ==
    \A poolId \in DOMAIN poolLpBalances : BigInt(poolLpBalances[poolId].balanceRaw) > 0

\* poolLpBalances.some((row) => BigInt(row.balanceRaw) > 0n)
hasLpExposure(poolLpBalances) ==
    \E poolId \in DOMAIN poolLpBalances : BigInt(poolLpBalances[poolId].balanceRaw) > 0

\* readVaultSnapshot: rejects when balanceOf fails, catches the three
\* user-flow reads one by one
readVaultSnapshot(chain) ==
    IF ~chain.usdc.ok \/ \E poolId \in PoolIds : ~chain.lp[poolId].ok
    THEN RejectedPromise
    ELSE LET poolLpBalances ==
                 [poolId \in PoolIds |->
                     [poolId |-> poolId,
                      balanceRaw |-> toString(chain.lp[poolId].value)]]
         IN  Fulfilled(
                 [usdcBalanceRaw |-> toString(chain.usdc.value),
                  poolLpBalances |-> poolLpBalances,
                  hasLpExposure |-> hasLpExposure(poolLpBalances),
                  supportsUserFlow |-> chain.depositToken.ok,
                  depositToken |->
                      IF chain.depositToken.ok THEN chain.depositToken.value
                      ELSE "null",
                  totalUserSharesRaw |->
                      IF chain.totalUserShares.ok
                      THEN toString(chain.totalUserShares.value) ELSE << >>,
                  hasOpenLpPosition |->
                      IF chain.hasOpenLpPosition.ok
                      THEN (IF chain.hasOpenLpPosition.value THEN "true" ELSE "false")
                      ELSE "null"])

\* what a status endpoint answers: no answer at all (fetch rejects), or an
\* HTTP status with a body; a body is not JSON, or an object whose healthy
\* and ready are "true", "false", a string ("text") or missing ("absent")
NetworkError == [answered |-> FALSE, status |-> 0, json |-> FALSE,
                 healthy |-> "absent", ready |-> "absent"]
HttpAnswer(status, healthy, ready) ==
    [answered |-> TRUE, status |-> status, json |-> TRUE,
     healthy |-> healthy, ready |-> ready]
HttpNotJson(status) ==
    [answered |-> TRUE, status |-> status, json |-> FALSE,
     healthy |-> "absent", ready |-> "absent"]
EndpointAnswers ==
    {NetworkError,
     HttpAnswer(200, "true", "true"), HttpAnswer(200, "true", "false"),
     HttpAnswer(200, "text", "true"), HttpAnswer(200, "true", "absent"),
     HttpNotJson(200), HttpAnswer(404, "true", "true"),
     HttpAnswer(499, "false", "false"), HttpNotJson(500),
     HttpAnswer(503, "true", "true")}

\* typeof value === "boolean" ? value : null
booleanOrNull(value) == IF value \in {"true", "false"} THEN value ELSE "null"

\* readStateEndpoint: the fetch is awaited without a catch, a body that is
\* not JSON reads as null
readStateEndpoint(answer) ==
    IF ~answer.answered
    THEN RejectedPromise
    ELSE Fulfilled([httpStatus |-> answer.status,
                    healthy |-> IF answer.json THEN booleanOrNull(answer.healthy)
                                ELSE "null",
                    ready |-> IF answer.json THEN booleanOrNull(answer.ready)
                              ELSE "null"])

\* an endpoint whose URL is not set: Promise.resolve(null)
NoEndpoint == Fulfilled([httpStatus |-> 0, healthy |-> "unset", ready |-> "unset"])

\* process.env as main() reads it: whether the two required vault addresses
\* are set and valid, and which of the optional variables are set
ReportEnvs ==
    [vaultAddresses : BOOLEAN, oldStateUrl : BOOLEAN, newStateUrl : BOOLEAN,
     outputPath : BOOLEAN]

CheckRow(id, status) == [id |-> id, status |-> status]

\* line 301: httpStatus >= 200 && httpStatus < 500
reachable(httpStatus) == httpStatus >= 200 /\ httpStatus < 500

\* faulty variant: ready is not looked at
isReady_ignoresReady(endpoint) ==
    endpoint.httpStatus = 200 /\ endpoint.healthy = "true"

\* lines 281-284
isReady(endpoint) ==
    endpoint.httpStatus = 200 /\ endpoint.healthy = "true" /\ endpoint.ready = "true"

\* lines 256-315: the five check rows, in order
buildChecks(oldSnapshot, newSnapshot, oldEndpoint, newEndpoint) ==
    << CheckRow("old_vault.lp_drained",
                IF oldSnapshot.hasLpExposure THEN "FAIL" ELSE "PASS"),
       CheckRow("new_vault.user_flow",
                IF newSnapshot.supportsUserFlow THEN "PASS" ELSE "FAIL"),
       CheckRow("new_vault.deposit_token",
                IF newSnapshot.depositToken # "null"
                   /\ ToLowerCase(newSnapshot.depositToken) = ToLowerCase(TokenUsdc)
                THEN "PASS" ELSE "WARN"),
       CheckRow("railway.new_service_ready",
                IF newEndpoint.healthy # "unset"
                THEN (IF isReady(newEndpoint) THEN "PASS" ELSE "FAIL")
                ELSE "WARN"),
       CheckRow("railway.old_service_reachable",
                IF oldEndpoint.healthy # "unset"
                THEN (IF reachable(oldEndpoint.httpStatus) THEN "PASS" ELSE "WARN")
                ELSE "WARN") >>

\* faulty variant: a WARN row fails the run as well
hasFailure_notPass(checks) == \E i \in 1..Len(checks) : checks[i].status # "PASS"

\* line 363: checks.some((row) => row.status === "FAIL")
hasFailure(checks) == \E i \in 1..Len(checks) : checks[i].status = "FAIL"

\* main() up to the Promise.all: getRequiredAddress throws on a missing or
\* invalid vault address, otherwise the four reads are started
MainStart(env) ==
    /\ migration.pc = "idle"
    /\ migration' =
          [pc |-> IF env.vaultAddresses THEN "reading" ELSE "rejected", env |-> env,
           oldChain |-> "none", newChain |-> "none",
           oldAnswer |-> "none", newAnswer |-> "none",
           oldSnapshot |-> Pending, newSnapshot |-> Pending,
           oldEndpoint |-> IF env.oldStateUrl THEN Pending ELSE NoEndpoint,
           newEndpoint |-> IF env.newStateUrl THEN Pending ELSE NoEndpoint,
           checks |-> << >>, written |-> FALSE, printed |-> FALSE, exitCode |-> 0]
    /\ UNCHANGED <<oracleVars, guardCall, yieldVars, engineVars, adapterVars, warnVars>>

\* one of the two readVaultSnapshot calls settles
ReadVaultSnapshot(which, chain) ==
    /\ migration.pc = "reading"
    /\ \/ /\ which = "old"
          /\ migration.oldSnapshot = Pending
          /\ migration' = [migration EXCEPT !.oldChain = chain,
                                            !.oldSnapshot = readVaultSnapshot(chain)]
       \/ /\ which = "new"
          /\ migration.newSnapshot = Pending
          /\ migration' = [migration EXCEPT !.newChain = chain,
                                            !.newSnapshot = readVaultSnapshot(chain)]
    /\ UNCHANGED <<oracleVars, guardCall, yieldVars, engineVars, adapterVars, warnVars>>

\* one of the two readStateEndpoint calls settles
ReadStateEndpoint(which, answer) ==
    /\ migration.pc = "reading"
    /\ \/ /\ which = "old"
          /\ migration.oldEndpoint = Pending
          /\ migration' = [migration EXCEPT !.oldAnswer = answer,
                                            !.oldEndpoint = readStateEndpoint(answer)]
       \/ /\ which = "new"
          /\ migration.newEndpoint = Pending
          /\ migration' = [migration EXCEPT !.newAnswer = answer,
                                            !.newEndpoint = readStateEndpoint(answer)]
    /\ UNCHANGED <<oracleVars, guardCall, yieldVars, engineVars, adapterVars, warnVars>>

Reads(m) == {m.oldSnapshot, m.newSnapshot, m.oldEndpoint, m.newEndpoint}

\* Promise.all rejects with the first read that rejects; main() has no
\* catch and `void main()` drops the rejection: nothing is printed
MainRejects ==
    /\ migration.pc = "reading"
    /\ RejectedPromise \in Reads(migration)
    /\ migration' = [migration EXCEPT !.pc = "rejected"]
    /\ UNCHANGED <<oracleVars, guardCall, yieldVars, engineVars, adapterVars, warnVars>>

\* main() after the Promise.all: the checks, the report file, the console
\* output, the exit code; writeFile may fail, and is not caught either
MainContinues(writeOk) ==
    /\ migration.pc = "reading"
    /\ \A read \in Reads(migration) : read.state = "fulfilled"
    /\ (~migration.env.outputPath) => writeOk
    /\ LET checks == buildChecks(migration.oldSnapshot.value,
                                 migration.newSnapshot.value,
                                 migration.oldEndpoint.value,
                                 migration.newEndpoint.value)
       IN  migration' =
             IF ~writeOk
             THEN [migration EXCEPT !.pc = "rejected", !.checks = checks]
             ELSE [migration EXCEPT
                      !.pc = "done", !.checks = checks,
                      !.written = migration.env.outputPath,
                      !.printed = TRUE,
                      !.exitCode = IF hasFailure(checks) THEN 1 ELSE 0]
    /\ UNCHANGED <<oracleVars, guardCall, yieldVars, engineVars, adapterVars, warnVars>>

ReportNext ==
    \/ \E env \in ReportEnvs : MainStart(env)
    \/ \E which \in {"old", "new"}, chain \in VaultChains :
           ReadVaultSnapshot(which, chain)
    \/ \E which \in {"old", "new"}, answer \in EndpointAnswers :
           ReadStateEndpoint(which, answer)
    \/ MainRejects
    \/ \E writeOk \in BOOLEAN : MainContinues(writeOk)

\* the report is a one-shot invocation of its own
ReportInit == Init /\ config.rateLimitCooldownMs = 2

ReportSpec == ReportInit /\ [][ReportNext]_vars

----------------------------------------------------------------------------
(* The disabled adapter (adapters/dex1.adapter.ts) *)

\* the outcome of an async method: the promise rejects with an Error, or is
\* fulfilled with a value
NoRequest == [data |-> "none"]
Throws(message) == [kind |-> "throw", error |-> message, value |-> NoRequest]
Returns(value) == [kind |-> "return", error |-> "", value |-> value]

DisabledMessage == "Dex1Adapter is disabled in live runtime."

\* the PoolConfig fields the adapter reads
AdapterPools ==
    { [id |-> "curvance-usdc-market", target |-> "0xTargetA", pool |-> "0xPoolA",
       tokenIn |-> "0xUsDc", lpToken |-> "0xLpA", pair |-> "USDC/cUSDC",
       protocol |-> "Curvance"],
      [id |-> "morpho-usdc-vault", target |-> "0xTargetB", pool |-> "0xPoolB",
       tokenIn |-> "0xUsDc", lpToken |-> "0xLpB", pair |-> "USDC/mUSDC",
       protocol |-> "Morpho"] }

\* inputs of the build methods
AmountInputs == {0, 1000000, 5000000}
MinOutInputs == {0, 990000}
DeadlineInputs == {0, 1700000000}
NetApyInputs == {0, 400}
HoldInputs == {0, 86400}
BuildEnterRequestInputs ==
    [pool : AdapterPools, amountIn : AmountInputs, minOut : MinOutInputs,
     deadline : DeadlineInputs, netApyBps : NetApyInputs,
     intendedHoldSeconds : HoldInputs]
BuildExitRequestInputs ==
    [pool : AdapterPools, tokenOut : {"0xUsDc"}, amountIn : AmountInputs,
     minOut : MinOutInputs, deadline : DeadlineInputs]

\* Dex1Adapter.fetchPoolState
fetchPoolState(pool) == Throws(DisabledMessage)

\* Dex1Adapter.estimatePriceImpactBps
estimatePriceImpactBps(pool, amountIn) == Throws(DisabledMessage)

\* Dex1Adapter.estimateRotationCostBps
estimateRotationCostBps(fromPool, toPool, amountIn) == Throws(DisabledMessage)

\* Dex1Adapter.buildEnterRequest
buildEnterRequest(input) ==
    Returns([target |-> input.pool.target, pool |-> input.pool.pool,
             tokenIn |-> input.pool.tokenIn, lpToken |-> input.pool.lpToken,
             amountIn |-> input.amountIn, minOut |-> input.minOut,
             deadline |-> input.deadline, data |-> "0x",
             pair |-> input.pool.pair, protocol |-> input.pool.protocol,
             netApyBps |-> input.netApyBps,
             intendedHoldSeconds |-> input.intendedHoldSeconds])

\* Dex1Adapter.buildExitRequest
buildExitRequest(input) ==
    Returns([target |-> input.pool.target, pool |-> input.pool.pool,
             lpToken |-> input.pool.lpToken, tokenOut |-> input.tokenOut,
             amountIn |-> input.amountIn, minOut |-> input.minOut,
             deadline |-> input.deadline, data |-> "0x",
             pair |-> input.pool.pair, protocol |-> input.pool.protocol])

CallFetchPoolState(pool) ==
    /\ adapterCall' = [method |-> "fetchPoolState", input |-> [pool |-> pool],
                       outcome |-> fetchPoolState(pool)]
    /\ UNCHANGED <<oracleVars, guardCall, yieldVars, engineVars, reportVars, warnVars>>

CallEstimatePriceImpactBps(pool, amountIn) ==
    /\ adapterCall' = [method |-> "estimatePriceImpactBps",
                       input |-> [pool |-> pool, amountIn |-> amountIn],
                       outcome |-> estimatePriceImpactBps(pool, amountIn)]
    /\ UNCHANGED <<oracleVars, guardCall, yieldVars, engineVars, reportVars, warnVars>>

CallEstimateRotationCostBps(fromPool, toPool, amountIn) ==
    /\ adapterCall' = [method |-> "estimateRotationCostBps",
                       input |-> [fromPool |-> fromPool, toPool |-> toPool,
                                  amountIn |-> amountIn],
                       outcome |-> estimateRotationCostBps(fromPool, toPool, amountIn)]
    /\ UNCHANGED <<oracleVars, guardCall, yieldVars, engineVars, reportVars, warnVars>>

CallBuildEnterRequest(input) ==
    /\ adapterCall' = [method |-> "buildEnterRequest", input |-> input,
                       outcome |-> buildEnterRequest(input)]
    /\ UNCHANGED <<oracleVars, guardCall, yieldVars, engineVars, reportVars, warnVars>>

CallBuildExitRequest(input) ==
    /\ adapterCall' = [method |-> "buildExitRequest", input |-> input,
                       outcome |-> buildExitRequest(input)]
    /\ UNCHANGED <<oracleVars, guardCall, yieldVars, engineVars, reportVars, warnVars>>

AdapterNext ==
    \/ \E pool \in AdapterPools : CallFetchPoolState(pool)
    \/ \E pool \in AdapterPools, amountIn \in AmountInputs :
           CallEstimatePriceImpactBps(pool, amountIn)
    \/ \E fromPool \in AdapterPools, toPool \in AdapterPools, amountIn \in AmountInputs :
           CallEstimateRotationCostBps(fromPool, toPool, amountIn)
    \/ \E input \in BuildEnterRequestInputs : CallBuildEnterRequest(input)
    \/ \E input \in BuildExitRequestInputs : CallBuildExitRequest(input)

\* the adapter holds no state: one oracle configuration is enough
AdapterInit == Init /\ config.rateLimitCooldownMs = 2

AdapterSpec == AdapterInit /\ [][AdapterNext]_vars

----------------------------------------------------------------------------
(* warnWithCooldown on its own: the fallback paths call it with their key,  *)
(* in any order and at any time                                            *)

\* number of warnings logged, and of clock ticks, explored
MaxWarnings == 3
MaxWarnTicks == 5

WarnKeys == {SingleKey(s) : s \in Symbols} \cup {StableFallbackKey, StableHardFallbackKey}

\* a fallback path calls this.warnWithCooldown(key, message)
WarnCall(key) ==
    /\ Len(consoleWarn(warnLog, warningLastLoggedAt, key, now)) <= MaxWarnings
    /\ warningLastLoggedAt' = warnWithCooldown(warningLastLoggedAt, key, now)
    /\ warnLog' = consoleWarn(warnLog, warningLastLoggedAt, key, now)
    /\ warnCall' = [key |-> key, at |-> now,
                    logged |-> warnIsLogged(warningLastLoggedAt, key, now)]
    /\ UNCHANGED <<now, config, cache, rateLimitedUntilMs, telemetry, calls,
                   lastCall, started, httpRequests, last429At, provenance,
                   guardCall, yieldVars, engineVars, reportVars, adapterVars>>

\* the wall clock advances between warnings
WarnTick ==
    /\ now < EpochStart + MaxWarnTicks
    /\ now' = now + 1
    /\ UNCHANGED <<config, cache, rateLimitedUntilMs, warningLastLoggedAt,
                   telemetry, calls, lastCall, started, httpRequests, last429At,
                   warnLog, provenance, guardCall, yieldVars, engineVars,
                   reportVars, adapterVars, warnVars>>

WarnNext ==
    \/ \E key \in WarnKeys : WarnCall(key)
    \/ WarnTick

WarnSpec == Init /\ [][WarnNext]_vars

----------------------------------------------------------------------------
(* Properties of the oracle *)

\* symbol has an unexpired cache entry
Fresh(symbol) == symbol \in DOMAIN cache /\ cache[symbol].expiresAt > now

StableSet == normalizeSymbols(config.stableSymbols)

\* steps of a call, as seen in a transition
StartsCall == started' = started + 1
Begins(c) == calls[c].pc = "idle" /\ calls'[c].pc # "idle"
Answered(c) == calls[c].pc = "inflight" /\ calls'[c].pc = "settled"
Completes(c) == calls[c].pc = "settled" /\ calls'[c].pc = "idle"
AllMapped(symbols) == \A s \in symbols : config.coingeckoIdBySymbol[s] # ""
CooldownOver == last429At # Nil /\ now >= last429At + rateLimitCooldownMs

\* C1: a getPriceUsd call made while its symbol has an unexpired cache entry
\* returns the cached value and issues no upstream request, and so does
\* getStablePricesUsd when every stable symbol has an unexpired entry: a call
\* that starts either finds some symbol of its own without an unexpired entry
\* (and only then enters fetchPrices), or returns the cached values at once
\* with no request.
C1_FreshHitNoRequest ==
    [][StartsCall =>
        /\ \A c \in Callers :
              (Begins(c) /\ calls'[c].op = "getPriceUsd") => ~Fresh(calls'[c].symbol)
        /\ \A c \in Callers :
              (Begins(c) /\ calls'[c].op = "getStablePricesUsd")
                  => \E s \in StableSet : ~Fresh(s)
        /\ (\A c \in Callers : ~Begins(c)) =>
              /\ httpRequests' = httpRequests
              /\ lastCall'.kind = "return" /\ lastCall'.requests = 0
              /\ IF lastCall'.op = "getPriceUsd"
                 THEN /\ Fresh(lastCall'.symbol)
                      /\ lastCall'.value = cache[lastCall'.symbol].value
                 ELSE /\ \A s \in StableSet : Fresh(s)
                      /\ lastCall'.values = [s \in StableSet |-> cache[s].value]
      ]_vars

C1_Witness ==
    /\ lastCall.op = "getStablePricesUsd"
    /\ lastCall.path = "fresh"
    /\ httpRequests = 1

\* C2: after an HTTP 429 at time t, every fetch attempt made before
\* t + rateLimitCooldownMs fails with the rate-limit-cooldown error and issues
\* no upstream request; an answer other than a 429 starts no cooldown.
C2_CooldownShortCircuits ==
    [][\A c \in Callers :
        /\ (Begins(c) /\ last429At # Nil /\ now < last429At + rateLimitCooldownMs)
              => /\ calls'[c].pc = "settled"
                 /\ calls'[c].outcome = Rejected("rate_limit_cooldown")
                 /\ calls'[c].requests = 0
                 /\ httpRequests' = httpRequests
        /\ (Answered(c) /\ calls'[c].outcome.error # "http_429")
              => rateLimitedUntilMs' = rateLimitedUntilMs
      ]_vars

C2_Witness ==
    \E c \in Callers :
        /\ calls[c].pc = "settled"
        /\ calls[c].outcome.error = "rate_limit_cooldown"
        /\ calls[c].nowMs > last429At

\* C3 as stated: after a 429 started a cooldown, a lookup (for symbols that
\* all have an id mapping) made once the cooldown has elapsed makes a new
\* upstream HTTP attempt.
C3_Original ==
    [][(StartsCall /\ CooldownOver /\ AllMapped(Symbols))
          => httpRequests' = httpRequests + 1]_vars

\* C3 amended: after a 429 started a cooldown, a lookup made once the
\* cooldown has elapsed that finds a symbol of its own without an unexpired
\* cache entry, and whose symbols all have an id mapping, makes a new upstream
\* HTTP attempt; a lookup that makes none is one served from unexpired entries.
C3_AttemptAfterCooldown ==
    [][(StartsCall /\ CooldownOver) =>
        /\ \A c \in Callers :
              (Begins(c) /\ AllMapped(calls'[c].symbols))
                  => /\ calls'[c].pc = "inflight"
                     /\ calls'[c].requests = 1
                     /\ httpRequests' = httpRequests + 1
        /\ (AllMapped(Symbols) /\ httpRequests' = httpRequests)
              => lastCall'.path = "fresh"
      ]_vars

C3_Witness ==
    \E c \in Callers :
        /\ calls[c].pc = "inflight"
        /\ last429At # Nil
        /\ calls[c].nowMs >= last429At + rateLimitCooldownMs

\* C4: when getPriceUsd's fetch fails (for whatever reason) and the symbol
\* has a cache entry, expired or not, the call returns that entry's value
\* instead of failing; entries are never removed, so an entry present when
\* the call was made is present when the failure is handled.
C4_StaleOnFailure ==
    [][/\ \A c \in Callers :
            (/\ Completes(c)
             /\ calls[c].op = "getPriceUsd"
             /\ ~calls[c].outcome.ok
             /\ calls[c].symbol \in DOMAIN cache)
                => /\ lastCall'.kind = "return"
                   /\ lastCall'.symbol = calls[c].symbol
                   /\ lastCall'.value = cache[calls[c].symbol].value
       /\ DOMAIN cache \subseteq DOMAIN cache'
      ]_vars

C4_Witness ==
    /\ lastCall.op = "getPriceUsd"
    /\ lastCall.path = "stale"
    /\ lastCall.symbol \in DOMAIN cache
    /\ lastCall.value = cache[lastCall.symbol].value

\* C5: getStablePricesUsd never propagates a fetch failure; when the fetch
\* fails and no stable symbol has any cache entry it returns exactly 1.0 for
\* every configured stable symbol.
C5_StableNeverThrows ==
    [][\A c \in Callers :
        (Completes(c) /\ calls[c].op = "getStablePricesUsd")
            => /\ lastCall'.kind = "return"
               /\ (~calls[c].outcome.ok /\ \A s \in StableSet : s \notin DOMAIN cache)
                     => lastCall'.values = [s \in StableSet |-> PriceScale]
      ]_vars

C5_Witness ==
    /\ lastCall.op = "getStablePricesUsd"
    /\ lastCall.path = "hard"
    /\ lastCall.values = [s \in StableSet |-> PriceScale]

\* C6: when getPriceUsd's fetch fails and the symbol has no cache entry at
\* all, the call fails with the fetch error, returns no value, and leaves the
\* cache without an entry for the symbol.
C6_NoEntryPropagates ==
    [][\A c \in Callers :
        (/\ Completes(c)
         /\ calls[c].op = "getPriceUsd"
         /\ ~calls[c].outcome.ok
         /\ calls[c].symbol \notin DOMAIN cache)
            => /\ lastCall' = Thrown("getPriceUsd", calls[c].symbol,
                                     calls[c].outcome.error, calls[c].requests)
               /\ calls[c].symbol \notin DOMAIN cache'
      ]_vars

C6_Witness ==
    /\ lastCall.op = "getPriceUsd"
    /\ lastCall.kind = "throw"
    /\ lastCall.error = "invalid_price"
    /\ lastCall.symbol \notin DOMAIN cache

\* C7: every cached price and every price returned by getPriceUsd or
\* getStablePricesUsd is a finite number strictly greater than zero.
C7_PricesPositive ==
    /\ \A k \in DOMAIN cache : cache[k].value > 0
    /\ lastCall.kind = "return" =>
          IF lastCall.op = "getPriceUsd" THEN lastCall.value > 0
          ELSE \A s \in DOMAIN lastCall.values : lastCall.values[s] > 0

C7_Witness ==
    /\ lastCall.path = "network"
    /\ lastCall.op = "getPriceUsd"
    /\ lastCall.value = PriceScale + 2000
    /\ cache[lastCall.symbol].value = lastCall.value

\* C8: on a fetch failure in getStablePricesUsd every stable symbol that has
\* a cache entry (even an expired one) is returned with its cached value, also
\* when other stable symbols have none.
C8_CachedStableKept ==
    [][\A c \in Callers :
        (Completes(c) /\ calls[c].op = "getStablePricesUsd" /\ ~calls[c].outcome.ok)
            => \A s \in StableSet :
                  s \in DOMAIN cache => lastCall'.values[s] = cache[s].value
      ]_vars

----------------------------------------------------------------------------
(* Properties of the guards *)

\* C9: depegGuard triggers if and only if the price map is empty or some
\* symbol's deviation round(abs(price-1)*10000) is strictly greater than
\* maxDeviationBps, that is, abs(price-1)*10000 >= maxDeviationBps + 1/2; a
\* deviation equal to the threshold does not trigger (1.02 at 100 bps
\* triggers, 1.005 and 1.01 at 100 bps do not).
C9_DepegIff ==
    guardCall.guard = "depeg" =>
        LET prices == guardCall.prices
            max == guardCall.threshold
            triggered == guardCall.result.triggered
        IN  /\ triggered <=>
                \/ DOMAIN prices = {}
                \/ \E s \in DOMAIN prices :
                      2 * 10000 * Abs(prices[s] - PriceScale) >= (2 * max + 1) * PriceScale
            /\ (max = 100 /\ DOMAIN prices = {"USDC"}) =>
                  /\ prices["USDC"] = PriceScale + 2000 => triggered
                  /\ prices["USDC"] = PriceScale + 500 => ~triggered
                  /\ prices["USDC"] = PriceScale + 1000 => ~triggered
            /\ triggered => guardCall.result.reason = "DEPEG_GUARD_TRIGGERED"

C9_Witness ==
    /\ guardCall.guard = "depeg"
    /\ guardCall.threshold = 100
    /\ DOMAIN guardCall.prices = {"USDC"}
    /\ guardCall.prices["USDC"] = PriceScale + 2000
    /\ guardCall.result.triggered

\* C10 as stated: aprCliffGuard never triggers when the previous snapshot is
\* missing or its incentive APR is <= 0; otherwise it triggers if and only if
\* the drop (prev-curr)/prev in bps is strictly greater than minDropBps.
C10_Original ==
    guardCall.guard = "aprCliff" =>
        LET prev == guardCall.previous
            curr == guardCall.current
            triggered == guardCall.result.triggered
        IN  IF ~prev.defined \/ prev.incentiveAprBps <= 0 THEN ~triggered
            ELSE curr.defined =>
                    (triggered <=>
                        (prev.incentiveAprBps - curr.incentiveAprBps) * 10000
                            > guardCall.threshold * prev.incentiveAprBps)

\* C10 amended: aprCliffGuard never triggers when the previous (or the
\* current) snapshot is missing or the previous incentive APR is <= 0;
\* otherwise it triggers if and only if the drop (prev-curr)/prev in bps,
\* rounded to the nearest integer (halves up), is strictly greater than
\* minDropBps, that is, the exact drop is at least minDropBps + 1/2 bps
\* (prev 1000, curr 400, threshold 5000 triggers); with minDropBps >= 0 a
\* rise in incentive APR never triggers.
C10_CliffRounded ==
    guardCall.guard = "aprCliff" =>
        LET prev == guardCall.previous
            curr == guardCall.current
            min == guardCall.threshold
            triggered == guardCall.result.triggered
        IN  IF ~prev.defined \/ prev.incentiveAprBps <= 0 \/ ~curr.defined
            THEN ~triggered
            ELSE /\ triggered <=>
                      2 * 10000 * (prev.incentiveAprBps - curr.incentiveAprBps)
                          >= (2 * min + 1) * prev.incentiveAprBps
                 /\ (prev.incentiveAprBps = 1000 /\ curr.incentiveAprBps = 400
                        /\ min = 5000) => triggered
                 /\ curr.incentiveAprBps > prev.incentiveAprBps => ~triggered

C10_Witness ==
    /\ guardCall.guard = "aprCliff"
    /\ guardCall.previous = Snapshot(1000)
    /\ guardCall.current = Snapshot(400)
    /\ guardCall.threshold = 5000
    /\ guardCall.result.triggered

----------------------------------------------------------------------------
(* Properties of the yield math *)

\* C11: for all integer inputs computeNetApyBps(base, incentive, fee) is
\* base + incentive - fee when that sum is not negative and 0 otherwise, so
\* it is never negative; computeNetApyBps(100, 50, 200) is 0.
C11_NetApyFloored ==
    yieldCall.fn = "netApy" =>
        LET sum == yieldCall.base + yieldCall.incentive - yieldCall.fee
        IN  /\ yieldCall.result >= 0
            /\ yieldCall.result >= sum
            /\ yieldCall.result \in {0, sum}
            /\ (yieldCall.base = 100 /\ yieldCall.incentive = 50
                    /\ yieldCall.fee = 200) => yieldCall.result = 0

C11_Witness ==
    /\ yieldCall.fn = "netApy"
    /\ yieldCall.base = 100
    /\ yieldCall.incentive = 50
    /\ yieldCall.fee = 200
    /\ yieldCall.result = 0

\* C12: estimatePaybackHours(cost, delta) is +infinity for every delta <= 0
\* and the number (cost / delta) * 24 * 365 for every delta > 0; cost 12,
\* delta 0 gives +infinity and cost 100, delta 200 gives 4380.
C12_PaybackHours ==
    yieldCall.fn = "payback" =>
        LET r == yieldCall.result
        IN  /\ yieldCall.delta <= 0 => r.infinite
            /\ yieldCall.delta > 0 =>
                  /\ ~r.infinite
                  /\ r.den > 0
                  /\ r.num * yieldCall.delta = yieldCall.cost * 24 * 365 * r.den
            /\ (yieldCall.cost = 100 /\ yieldCall.delta = 200) =>
                  (~r.infinite /\ r.num = 4380 * r.den)

C12_Witness ==
    /\ yieldCall.fn = "payback"
    /\ yieldCall.cost = 100
    /\ yieldCall.delta = 200
    /\ ~yieldCall.result.infinite
    /\ yieldCall.result.num = 4380 * yieldCall.result.den

----------------------------------------------------------------------------
(* Properties of the rotation policy *)

\* a scan tick is taken in this step
Scans == engine'.clock = engine.clock + 1

\* the pool other than the held one with the highest net APY in the tick
Contender(snapshots, held) == bestPool(snapshots, PoolIds \ {held})

\* C13: on every tick the decision is ROTATE only if all five conditions
\* hold together: candidate net APY minus held net APY >= rotationDeltaApyBps,
\* payback hours of the rotation cost <= maxPaybackHours, the minimum hold
\* time has elapsed since the held pool was entered, the day's rotation count
\* is below maxRotationsPerDay, and the time since the last rotation exceeds
\* cooldownSeconds; held 400 bps, candidate 700 bps, cost 12 bps, cap 72 h is
\* not rotated.
C13_RotateOnlyIfAll ==
    [][Scans =>
        LET held == engine.position.poolId
            snapshots == decision'.snapshots
            delta == netApyOf(snapshots, decision'.to) - netApyOf(snapshots, held)
            cost == PoolConfig[held].rotationCostBps
        IN  /\ decision'.action = "ROTATE" =>
                /\ held \in PoolIds
                /\ decision'.from = held
                /\ decision'.to \in PoolIds \ {held}
                /\ delta >= 200
                /\ delta > 0 /\ cost * 24 * 365 <= 72 * delta
                /\ engine.clock - engine.position.enteredAt >= runtime.minHoldSeconds
                /\ rotationsOn(engine) < runtime.maxRotationsPerDay
                /\ \/ engine.lastRotationAt = Nil
                   \/ engine.clock - engine.lastRotationAt > runtime.cooldownSeconds
            /\ ( /\ held \in PoolIds
                 /\ netApyOf(snapshots, held) = 400
                 /\ netApyOf(snapshots, Contender(snapshots, held)) = 700
                 /\ PoolConfig[held].rotationCostBps = 12 )
                => decision'.action # "ROTATE"
    ]_vars

C13_Witness ==
    /\ decision.action = "ROTATE"
    /\ decision.from = "curvance-usdc-market"
    /\ netApyOf(decision.snapshots, decision.from) = 400
    /\ netApyOf(decision.snapshots, decision.to) = 1860
    /\ engine.position.poolId = decision.to

\* the depeg guard's condition on the tick's stable prices, at 100 bps
DepegObserved(stablePricesUsd) ==
    \/ DOMAIN stablePricesUsd = {}
    \/ \E symbol \in DOMAIN stablePricesUsd :
          deviationBpsFromDollar(stablePricesUsd[symbol]) > 100

\* C14: on every tick where the depeg guard is triggered the decision is HOLD
\* or EXIT, never ENTER or ROTATE, whatever the net APYs of the pools are.
C14_DepegForcesHoldOrExit ==
    (decision.action # "none" /\ DepegObserved(decision.stablePricesUsd))
        => decision.action \in {"HOLD", "EXIT"}

C14_Witness ==
    /\ decision.action = "HOLD"
    /\ DepegObserved(decision.stablePricesUsd)
    /\ engine.position.poolId = "curvance-usdc-market"
    /\ netApyOf(decision.snapshots, "curvance-usdc-market") = 400
    /\ netApyOf(decision.snapshots, "morpho-usdc-vault") = 1860

\* C15: a built request is broadcast only when dryRun is false and
\* liveModeArmed is true; with either flag in its safe position, and with
\* the default configuration (DRY_RUN and LIVE_MODE_ARMED unset, so dryRun is
\* true and liveModeArmed false), no request is ever broadcast.
C15_TwoKeyGate ==
    decision.action # "none" =>
        /\ decision.broadcast =>
              /\ decision.built
              /\ ~runtime.dryRun
              /\ runtime.liveModeArmed
              /\ runtime.env.DRY_RUN \notin {"", "true", "TRUE"}
              /\ runtime.env.LIVE_MODE_ARMED \in {"true", "TRUE"}
        /\ (runtime.env.DRY_RUN = "" /\ runtime.env.LIVE_MODE_ARMED = "")
              => (runtime.dryRun /\ ~runtime.liveModeArmed /\ ~decision.broadcast)

C15_Witness ==
    /\ decision.action = "ENTER"
    /\ decision.built
    /\ decision.broadcast
    /\ ~runtime.dryRun
    /\ runtime.liveModeArmed

----------------------------------------------------------------------------
(* Properties of the migration report *)

\* main() has ended: it ran to its last line, or its promise rejected
Ended == migration.pc \in {"done", "rejected"}

\* the check rows have been built
HasRows == migration.pc # "idle" /\ Len(migration.checks) = 5

RowStatus(i) == migration.checks[i].status

\* C16: in the migration report the check old_vault.lp_drained is FAIL if
\* the old vault's balance of any configured pool's LP/receipt token is
\* nonzero, and PASS if all of them are zero.
C16_LpDrained ==
    HasRows =>
        LET balances == migration.oldChain.lp
        IN  /\ migration.checks[1].id = "old_vault.lp_drained"
            /\ (\E poolId \in PoolIds : balances[poolId].value # 0)
                  => RowStatus(1) = "FAIL"
            /\ (\A poolId \in PoolIds : balances[poolId].value = 0)
                  => RowStatus(1) = "PASS"

C16_Witness ==
    /\ migration.pc = "done"
    /\ migration.oldChain.lp["curvance-usdc-market"].value = 0
    /\ migration.oldChain.lp["morpho-usdc-vault"].value = 25
    /\ RowStatus(1) = "FAIL"

C18_AlwaysPrintsReport ==
    ( /\ Ended
      /\ migration.env.vaultAddresses
      /\ migration.pc = "rejected" => Len(migration.checks) = 0 )
    => (migration.pc = "done" /\ migration.printed /\ HasRows)

\* C19: the check railway.old_service_reachable is never FAIL: it is WARN
\* when the old service's status URL is not configured or the service is
\* unreachable, and PASS otherwise.
C19_OldServiceWarnOnly ==
    ( /\ Ended
      /\ migration.env.vaultAddresses
      /\ RejectedPromise \notin {migration.oldSnapshot, migration.newSnapshot,
                                 migration.newEndpoint} )
    => LET answer == migration.oldAnswer
           unreachable == ~answer.answered \/ answer.status >= 500
       IN  /\ HasRows
           /\ migration.checks[5].id = "railway.old_service_reachable"
           /\ RowStatus(5) # "FAIL"
           /\ (~migration.env.oldStateUrl) => RowStatus(5) = "WARN"
           /\ (migration.env.oldStateUrl /\ unreachable) => RowStatus(5) = "WARN"
           /\ (migration.env.oldStateUrl /\ ~unreachable) => RowStatus(5) = "PASS"

LacksUserFlowFunction(chain) ==
    \/ ~chain.depositToken.ok
    \/ ~chain.totalUserShares.ok
    \/ ~chain.hasOpenLpPosition.ok

BalancesRead(chain) == chain.usdc.ok /\ \A poolId \in PoolIds : chain.lp[poolId].ok

\* C21: a vault that lacks any of the new-style functions depositToken,
\* totalUserShares, hasOpenLpPosition is captured with supportsUserFlow =
\* false, so new_vault.user_flow is FAIL for it, and the failed read is never
\* propagated as an error.
C21_LackingAnyFailsUserFlow ==
    /\ \A which \in {"old", "new"} :
         LET snapshot == IF migration.pc = "idle" THEN Pending
                         ELSE IF which = "old" THEN migration.oldSnapshot
                         ELSE migration.newSnapshot
             chain == IF which = "old" THEN migration.oldChain
                      ELSE migration.newChain
         IN  (snapshot # Pending /\ BalancesRead(chain)
                 /\ LacksUserFlowFunction(chain))
             => /\ snapshot.state = "fulfilled"
                /\ ~snapshot.value.supportsUserFlow
    /\ (HasRows /\ LacksUserFlowFunction(migration.newChain))
          => /\ migration.checks[2].id = "new_vault.user_flow"
             /\ RowStatus(2) = "FAIL"

----------------------------------------------------------------------------
(* Properties of the disabled adapter *)

\* C22: every method of a disabled adapter (fetchPoolState,
\* estimatePriceImpactBps, estimateRotationCostBps, buildEnterRequest,
\* buildExitRequest) fails with the 'disabled' error and none returns a
\* usable result.
C22_DisabledAdapterFailsAll ==
    adapterCall.method # "none" =>
        /\ adapterCall.outcome.kind = "throw"
        /\ adapterCall.outcome.error = DisabledMessage

----------------------------------------------------------------------------
(* Properties of the config module *)

\* the startup errors of the three live-mode requirements
LiveRequirementErrors ==
    {"executor_key_required", "vault_address_required", "pool_addresses_required"}

\* C23: configuration loading fails at startup, before any scan can begin,
\* whenever dryRun is false and the vault address is the zero address, the
\* executor key is missing, or an enabled pool has a zero target / pool /
\* lpToken / tokenIn address; with dryRun true none of these stops startup.
C23_LiveConfigFailsFast ==
    runtime.pc # "unloaded" =>
        LET env == runtime.env
            dryRun == env.DRY_RUN \in {"", "true", "TRUE"}
            zeroPool == \E poolId \in PoolIds :
                            /\ env.POOLS[poolId].enabled
                            /\ ZERO_ADDRESS \in {env.POOLS[poolId].target,
                                                 env.POOLS[poolId].pool,
                                                 env.POOLS[poolId].lpToken,
                                                 env.POOLS[poolId].tokenIn}
            zeroVault == env.VAULT_ADDRESS \in {"undefined", ZERO_ADDRESS}
            defect == zeroVault \/ ~env.BOT_EXECUTOR_PRIVATE_KEY \/ zeroPool
        IN  /\ (~dryRun /\ defect)
                => /\ runtime.pc = "failed"
                   /\ engine = EngineStart
                   /\ decision = NoDecision
            /\ (~dryRun /\ ~defect) => runtime.error \notin LiveRequirementErrors
            /\ dryRun => runtime.error \notin LiveRequirementErrors

C23_Witness ==
    /\ runtime.pc = "failed"
    /\ runtime.error = "pool_addresses_required"
    /\ runtime.env.POOLS["morpho-usdc-vault"].lpToken = ZERO_ADDRESS
    /\ runtime.env.POOLS["morpho-usdc-vault"].target # ZERO_ADDRESS
    /\ engine = EngineStart

----------------------------------------------------------------------------
(* Further properties of the oracle *)

\* the symbols of the lookup that starts in this step
StartedSymbols ==
    IF \E c \in Callers : Begins(c)
    THEN calls'[CHOOSE c \in Callers : Begins(c)].symbols
    ELSE IF lastCall'.op = "getPriceUsd" THEN {lastCall'.symbol}
    ELSE StableSet

\* call c completes in this step by serving a fallback
ServesFallback(c) == Completes(c) /\ lastCall'.path \in {"stale", "hard"}

\* the fallback of call c re-arms the entries of its symbols: they expire
\* staleFallbackTtlMs from now, and a stale re-arm keeps their values
Rearms(c) ==
    /\ staleFallbackTtlMs >= config.cacheTtlMs
    /\ \A s \in calls[c].symbols :
          /\ s \in DOMAIN cache'
          /\ cache'[s].expiresAt = now + staleFallbackTtlMs
          /\ lastCall'.path = "stale"
                => (s \in DOMAIN cache /\ cache'[s].value = cache[s].value)

\* a fallback served at some t wrote an entry for s, and t + staleFallbackTtl
\* is still ahead at time nowMs
ArmedAt(p, s, nowMs) ==
    s \in DOMAIN p /\ p[s].armedUntil # Nil /\ nowMs < p[s].armedUntil

\* C24 as stated: after a stale fallback (or the stable hard fallback) is
\* served at time t, the affected cache entries expire at
\* t + staleFallbackTtl, with staleFallbackTtl >= the normal cache TTL, so
\* every lookup for those symbols before that time is served from cache with
\* no upstream request, and the stale re-arm changes only the entry's expiry,
\* never its value.
C24_Original ==
    [][ /\ \A c \in Callers : ServesFallback(c) => Rearms(c)
        /\ \A s \in Symbols :
              ArmedAt(provenance', s, now')
                  => (s \in DOMAIN cache' /\ cache'[s].expiresAt > now')
        /\ (StartsCall /\ \A s \in StartedSymbols : ArmedAt(provenance, s, now))
              => (httpRequests' = httpRequests /\ lastCall'.path = "fresh")
      ]_vars

\* as ArmedAt, and no successful fetch has replaced the entry since
StillArmedAt(p, s, nowMs) == ArmedAt(p, s, nowMs) /\ p[s].rearmed

\* C24 amended: a stale fallback (or the stable hard fallback) served at
\* time t re-arms the affected entries to expire at t + staleFallbackTtl,
\* with staleFallbackTtl >= the normal cache TTL, and the stale re-arm
\* changes only the expiry, never the value; until a successful fetch of an
\* overlapping lookup replaces such an entry (with the normal TTL), it stays
\* unexpired up to that time and every lookup whose symbols all have such
\* entries is served from cache with no upstream request.
C24_RearmHoldsUntilReplaced ==
    [][ /\ \A c \in Callers : ServesFallback(c) => Rearms(c)
        /\ \A s \in Symbols :
              StillArmedAt(provenance', s, now')
                  => /\ s \in DOMAIN cache'
                     /\ cache'[s].expiresAt = provenance'[s].armedUntil
        /\ (StartsCall /\ \A s \in StartedSymbols : StillArmedAt(provenance, s, now))
              => (httpRequests' = httpRequests /\ lastCall'.path = "fresh")
      ]_vars

\* a lookup served from an entry that a fallback re-armed, at a time when
\* the normal TTL counted from the fallback has already run out
C24_Witness ==
    /\ lastCall.path = "fresh"
    /\ lastCall.op = "getPriceUsd"
    /\ StillArmedAt(provenance, lastCall.symbol, now)
    /\ staleFallbackTtlMs > config.cacheTtlMs
    /\ now >= provenance[lastCall.symbol].armedUntil - staleFallbackTtlMs
                 + config.cacheTtlMs

\* symbol has no price-feed id mapping
Unmapped(s) == config.coingeckoIdBySymbol[s] = ""

\* C25: a lookup for a symbol that has no price-feed id mapping is always
\* rejected before any upstream request is issued: no price for that symbol
\* is returned, cached, or substituted by a default, in getPriceUsd and in
\* getStablePricesUsd alike.
C25_UnmappedRejected ==
    [][ /\ \A c \in Callers :
              (Completes(c) /\ \E s \in calls[c].symbols : Unmapped(s))
                  => /\ calls[c].requests = 0
                     /\ lastCall'.kind = "throw"
        /\ (StartsCall /\ \E s \in StartedSymbols : Unmapped(s))
              => (httpRequests' = httpRequests /\ lastCall'.kind # "return")
        /\ \A s \in Symbols : Unmapped(s) => s \notin DOMAIN cache'
      ]_vars

----------------------------------------------------------------------------
(* Properties of warnWithCooldown *)

\* the logged warnings with this key
LoggedWith(key) == {i \in DOMAIN warnLog : warnLog[i].key = key}

\* C26: for each warning key (single:<symbol>, stable:fallback,
\* stable:hard-fallback) with a positive warning cooldown, the first
\* occurrence is logged and any two logged warnings with the same key are at
\* least warningCooldownMs apart; a warning under one key never suppresses a
\* warning under another key: a call is suppressed only by a logged warning
\* of its own key less than warningCooldownMs before it.
C26_WarnPerKeyCooldown ==
    warningCooldownMs > 0 =>
        /\ \A i, j \in DOMAIN warnLog :
              (i < j /\ warnLog[i].key = warnLog[j].key)
                  => warnLog[j].at - warnLog[i].at >= warningCooldownMs
        /\ (warnCall.key.k # "none" /\ warnCall.logged)
              => warnLog[Len(warnLog)] = [key |-> warnCall.key, at |-> warnCall.at]
        /\ (warnCall.key.k # "none" /\ ~warnCall.logged)
              => \E i \in LoggedWith(warnCall.key) :
                    /\ warnCall.at - warnLog[i].at < warningCooldownMs
                    /\ warnCall.at >= warnLog[i].at

\* a key logged twice, a cooldown apart, another key logged in between, and
\* a call of the first key suppressed after that
C26_Witness ==
    /\ warningCooldownMs > 0
    /\ warnCall.key.k # "none" /\ ~warnCall.logged
    /\ Len(warnLog) = 3
    /\ warnLog[1].key = warnCall.key
    /\ warnLog[2].key # warnCall.key
    /\ warnLog[3].key = warnCall.key
    /\ warnCall.at > warnLog[3].at

TelemetryCounters ==
    {"cacheFreshHits", "staleFallbackHits", "stableFallbackHits",
     "networkFetchSuccesses", "fetchFailures"}

\* C27: the telemetry keeps separate cumulative counts for fresh hits,
\* stale-fallback hits, stable hard-fallback hits, successful network fetches
\* and fetch failures: no counter ever decreases, and the stable
\* hard-fallback counter (stableFallbackHits) counts only uses of the 1.0
\* hard fallback.
C27_TelemetryCounts ==
    [][ /\ \A f \in TelemetryCounters : telemetry'[f] >= telemetry[f]
        /\ telemetry'.stableFallbackHits # telemetry.stableFallbackHits
              => /\ telemetry'.stableFallbackHits = telemetry.stableFallbackHits + 1
                 /\ lastCall'.op = "getStablePricesUsd"
                 /\ lastCall'.path = "hard"
      ]_vars

\* the cache entries a completed call wrote, with the value and the TTL of
\* that write
WritesOf(call) ==
    IF call.kind # "return" \/ call.path \in {"fresh", "none"} THEN {}
    ELSE IF call.op = "getPriceUsd" THEN {call.symbol}
    ELSE DOMAIN call.values
WrittenValue(call, s) ==
    IF call.op = "getPriceUsd" THEN call.value ELSE call.values[s]
WrittenTtl(call) ==
    IF call.path = "network" THEN config.cacheTtlMs ELSE staleFallbackTtlMs

\* C28: when lookups overlap, the cache is keyed by normalised symbol only
\* (at most one entry per symbol), every step that writes an entry replaces
\* its value and its expiry together by those of that one write, and no
\* other step changes an entry: what a read finds, and what is left when all
\* lookups have finished, is the entry of the last write.
C28_LastWriteWins ==
    [][ LET w == WritesOf(lastCall') IN
        /\ DOMAIN cache' = DOMAIN cache \cup w
        /\ \A s \in DOMAIN cache' : s \in Symbols /\ Normalize(s) = s
        /\ \A s \in w :
              cache'[s] = [value |-> WrittenValue(lastCall', s),
                           expiresAt |-> now + WrittenTtl(lastCall')]
        /\ \A s \in DOMAIN cache \ w : cache'[s] = cache[s]
      ]_vars

\* two lookups of one symbol overlapped at the start: the first fetched and
\* wrote the entry, the second failed and re-armed it; the entry left has the
\* value of the first write and the expiry of the last
C28_Witness ==
    /\ now = EpochStart
    /\ \A c \in Callers : calls[c].pc = "idle"
    /\ httpRequests = 2
    /\ telemetry.networkFetchSuccesses = 1
    /\ telemetry.staleFallbackHits = 1
    /\ lastCall.op = "getPriceUsd"
    /\ lastCall.path = "stale"
    /\ DOMAIN cache = {lastCall.symbol}
    /\ cache[lastCall.symbol] = [value |-> lastCall.value,
                                 expiresAt |-> EpochStart + staleFallbackTtlMs]
    /\ staleFallbackTtlMs > config.cacheTtlMs

\* C29: getPriceUsd(symbol) returns only a price that a successful upstream
\* fetch supplied for that symbol, never the assumed 1.0 that a stable hard
\* fallback wrote to the cache, neither as a fresh hit nor as a stale
\* fallback.
C29_SinglePriceFromUpstream ==
    (lastCall.op = "getPriceUsd" /\ lastCall.kind = "return")
        => /\ lastCall.symbol \in DOMAIN provenance
           /\ provenance[lastCall.symbol].origin = "upstream"

OutcomeCounters == {"cacheFreshHits", "networkFetchSuccesses", "fetchFailures"}

\* C30: every completed call of getPriceUsd or getStablePricesUsd issued at
\* most one upstream HTTP request and raises exactly one of cacheFreshHits,
\* networkFetchSuccesses, fetchFailures, by one (no other step changes a
\* counter); in every reachable state
\* staleFallbackHits + stableFallbackHits <= fetchFailures.
C30_OneOutcomePerCall ==
    /\ [](telemetry.staleFallbackHits + telemetry.stableFallbackHits
              <= telemetry.fetchFailures)
    /\ [][ IF lastCall'.op \in {"getPriceUsd", "getStablePricesUsd"}
           THEN /\ lastCall'.requests <= 1
                /\ httpRequests' = httpRequests
                /\ \E f \in OutcomeCounters :
                      /\ telemetry'[f] = telemetry[f] + 1
                      /\ \A g \in OutcomeCounters \ {f} : telemetry'[g] = telemetry[g]
           ELSE /\ telemetry' = telemetry
                /\ httpRequests' \in {httpRequests, httpRequests + 1}
         ]_vars

\* two calls each made one request and failed: the first threw, the second
\* was served the hard fallback
C30_Witness ==
    /\ lastCall.path = "hard"
    /\ lastCall.requests = 1
    /\ httpRequests = 2
    /\ telemetry.fetchFailures = 2
    /\ telemetry.stableFallbackHits = 1
    /\ telemetry.staleFallbackHits = 0

====
